---- MODULE Spec2Model ----
(***************************************************************************)
(* Model of the storage/cache core of the clinic appointment app:          *)
(* services/storage.ts (storageService over an in-memory cache and the     *)
(* AsyncStorage backend), services/notifications.ts, services/auth.ts,     *)
(* contexts/AuthContext.tsx and the screens that read and write the same   *)
(* backend keys directly.                                                  *)
(*                                                                         *)
(* An async function is cut at its awaits: one action runs the synchronous *)
(* code from a resumption point up to and including the next backend       *)
(* operation, the next action of the same caller is the continuation.      *)
(***************************************************************************)
EXTENDS Integers, Sequences, FiniteSets, TLC

VARIABLES
    disk,       \* AsyncStorage: key -> stored JSON text, or Absent
    cache,      \* storage.ts `cache` Map: key -> CacheItem (partial function)
    now,        \* Date.now(), in milliseconds
    pc,         \* per caller: the await at which its async call is suspended
    loc,        \* per caller: the local variables of the suspended call
    lastOp,     \* the last completed storageService call of the store client
    lastSet,    \* per key: the last completed setItem not followed by a write
    ops,        \* number of operations the app's callers have started
    done,       \* the last completed repository or screen operation
    run,        \* the addAppointment calls completed in a row, and their start
    race,       \* the last write of a collection from a snapshot that another
                \* caller's write had made stale, while it is the stored one
    registeredUsers, \* auth.ts module variable `registeredUsers`
    user,       \* AuthProvider state `user`
    loading,    \* AuthProvider state `loading`
    shown,      \* DoctorDashboardScreen state `appointments`
    selected    \* DoctorDashboardScreen state `selectedAppointment`, `actionType`

storeVars == <<disk, cache, now>>
procVars  == <<pc, loc>>
histVars  == <<lastOp, lastSet>>
ghostVars == <<ops, done, run, race>>
authVars  == <<registeredUsers, user, loading>>
uiVars    == <<shown, selected>>
appVars   == <<ghostVars, authVars, uiVars>>
vars      == <<disk, cache, now, pc, loc, lastOp, lastSet, ops, done, run, race,
               registeredUsers, user, loading, shown, selected>>

(***************************************************************************)
(* Bounds of the model.                                                    *)
(***************************************************************************)
MaxMinutes == 2        \* the clock runs over this many whole minutes
MaxTTL     == 1        \* largest expiryMinutes passed to setItem
MaxMs      == 1        \* the clock runs over this many single milliseconds
MaxOps     == 4        \* operations started by the app's callers in one run

(***************************************************************************)
(* JavaScript values.  A value is a tagged record; arrays and objects      *)
(* carry their content under .a and .o.  A field holding the string        *)
(* UndefField stands for a property whose value is `undefined`.            *)
(***************************************************************************)
Undefined == [t |-> "undefined"]
Null      == [t |-> "null"]
NaN       == [t |-> "nan"]
Num(n)    == [t |-> "num", n |-> n]
Str(s)    == [t |-> "str", s |-> s]
Bool(b)   == [t |-> "bool", b |-> b]
Arr(s)    == [t |-> "arr", a |-> s]
Obj(r)    == [t |-> "obj", o |-> r]
UndefField == "undefined"

\* JavaScript truthiness: undefined, null, 0, NaN, "" and false are falsy.
Falsy(v) == v \in {Undefined, Null, NaN, Num(0), Str(""), Bool(FALSE)}

\* a || b
OrElse(a, b) == IF Falsy(a) THEN b ELSE a

\* { ...a, ...p }
Merge(a, p) == [f \in DOMAIN a \cup DOMAIN p |-> IF f \in DOMAIN p THEN p[f] ELSE a[f]]

(***************************************************************************)
(* JSON.  The text written to the backend is modelled by the JSON document *)
(* it denotes: JSON.stringify maps NaN to null and drops the properties of *)
(* an object whose value is undefined; JSON.parse returns the document.    *)
(***************************************************************************)
\* (cancelReason is the one property the app leaves optional.)
OptionalFields == {"cancelReason"}

DropUndefined(r) ==
    [f \in {g \in DOMAIN r : ~(g \in OptionalFields /\ r[g] = UndefField)} |-> r[f]]

ToJSON(v) ==
    CASE v.t = "nan" -> Null
      [] v.t = "arr" -> Arr([i \in DOMAIN v.a |-> DropUndefined(v.a[i])])
      [] v.t = "obj" -> Obj(DropUndefined(v.o))
      [] OTHER       -> v

Stringify(v) == [json |-> ToJSON(v)]
Parse(s)     == s.json

\* AsyncStorage.getItem resolves to null for a key that is not stored.
Absent == [absent |-> TRUE]

\* A stored text JSON.parse accepts (a bare token string is none).
Parsable(s) == "json" \in DOMAIN s

\* A value JSON.stringify throws on (an object that refers to itself).
Circular == [t |-> "circular"]
Serializable(v) == v # Circular

\* The outcome of a call that threw.
Thrown == [t |-> "throw"]

(***************************************************************************)
(* storage.ts: keys, cache items.                                          *)
(***************************************************************************)
K_USER          == "@MedicalApp:user"
K_TOKEN         == "@MedicalApp:token"
K_APPOINTMENTS  == "@MedicalApp:appointments"
K_NOTIFICATIONS == "@MedicalApp:notifications"
K_REGISTERED    == "@MedicalApp:registeredUsers"
K_SETTINGS      == "@MedicalApp:settings"
K_STATISTICS    == "@MedicalApp:statisticsCache"

STORAGE_KEYS == {K_USER, K_TOKEN, K_APPOINTMENTS, K_NOTIFICATIONS,
                 K_REGISTERED, K_SETTINGS, K_STATISTICS}

MsPerMinute == 60 * 1000

\* expiryMinutes is optional: NoTTL stands for an omitted argument.
NoTTL    == -1
\* CacheItem.expiry is optional: NoExpiry stands for `undefined`.
NoExpiry == 0

\* expiry: expiryMinutes ? Date.now() + (expiryMinutes * 60 * 1000) : undefined
ExpiryOf(ttl, t) ==
    IF ttl # NoTTL /\ ttl # 0 THEN t + (ttl * MsPerMinute) ELSE NoExpiry

\* A cache item that keeps the serialized form instead of the value passed in.
CacheItem_Serialized(v, ref, t, ttl) ==
    [data |-> ToJSON(v), ref |-> ref, timestamp |-> t,
     expiry |-> IF ttl # NoTTL /\ ttl # 0 THEN t + (ttl * MsPerMinute) ELSE NoExpiry]

\* `data` holds a reference when the value is an array or an object: `ref`
\* is the identity of the object it refers to (0 for a primitive), so that
\* an in-place push through one alias is seen through every other alias.
CacheItem(v, ref, t, ttl) ==
    [data |-> v, ref |-> ref, timestamp |-> t, expiry |-> ExpiryOf(ttl, t)]

\* An entry that is still served at the very instant it expires.
CacheValid_Inclusive(c, k, t) ==
    /\ k \in DOMAIN c
    /\ (c[k].expiry = NoExpiry \/ c[k].expiry >= t)

\* cache.get(key) is defined and (!cached.expiry || cached.expiry > Date.now())
CacheValid(c, k, t) ==
    /\ k \in DOMAIN c
    /\ (c[k].expiry = NoExpiry \/ c[k].expiry > t)

\* cache.set(key, item)
CacheSet(c, k, item) == [x \in DOMAIN c \cup {k} |-> IF x = k THEN item ELSE c[x]]

\* cache.delete(key)
CacheDelete(c, k) == [x \in DOMAIN c \ {k} |-> c[x]]

EmptyCache == [x \in {} |-> Null]

(***************************************************************************)
(* Callers.                                                                *)
(***************************************************************************)
Procs == {"p1", "p2"}
Idle  == [op |-> "idle"]
NoOp  == [op |-> "none", key |-> "none", arg |-> Undefined, ret |-> Undefined,
          hit |-> FALSE, after |-> "other", late |-> FALSE]
NoSet == [set |-> FALSE]
NoneDone == [op |-> "none"]
NoRun == [active |-> FALSE]
NoRace == [key |-> "none"]
NoSelection == [none |-> TRUE]


(***************************************************************************)
(* Object identities.  A fresh array or object (the result of JSON.parse,  *)
(* of map/filter, or a literal) gets the least identity that neither the   *)
(* cache nor a suspended call still refers to.                             *)
(***************************************************************************)
RefsInUse ==
    {cache[k].ref : k \in DOMAIN cache}
        \cup {loc[p].ref : p \in {q \in Procs : "ref" \in DOMAIN loc[q]}}

FreshRef == CHOOSE r \in 1..(Cardinality(RefsInUse) + 1) : r \notin RefsInUse

(***************************************************************************)
(* storageService.getItem, cut at `await AsyncStorage.getItem(key)`.       *)
(***************************************************************************)
\* The cache after the synchronous part of a miss: an expired entry is
\* deleted before the backend is read.
GetItemEvict(c, k, t) ==
    IF k \in DOMAIN c /\ ~CacheValid(c, k, t) THEN CacheDelete(c, k) ELSE c

\* What getItem returns after the backend read resolved to `stored`.
GetItemResult(stored, dflt) ==
    IF stored # Absent /\ Parsable(stored) THEN Parse(stored) ELSE OrElse(dflt, Null)

\* The cache after the continuation: a parsed value is cached without expiry.
GetItemFill(c, k, stored, ref, t) ==
    IF stored # Absent /\ Parsable(stored)
        THEN CacheSet(c, k, CacheItem(Parse(stored), ref, t, NoTTL))
        ELSE c

(***************************************************************************)
(* The generic API as called by one client, with the bookkeeping the       *)
(* properties of setItem/getItem/removeItem are stated over.               *)
(***************************************************************************)
\* lastOp.after names the call completed just before, when it was on the
\* same key (and "other" when it was not); lastOp.late tells whether a
\* setItem recorded in lastSet had run out of its minutes when the call
\* completed.
Completed(op, k, arg, ret, hit) ==
    lastOp' = [op |-> op, key |-> k, arg |-> arg, ret |-> ret, hit |-> hit,
               after |-> IF lastOp.key = k THEN lastOp.op ELSE "other",
               late |-> /\ lastSet[k].set
                        /\ lastSet[k].ttl > 0
                        /\ now - lastSet[k].at >= lastSet[k].ttl * MsPerMinute]

\* setItem up to `await AsyncStorage.setItem(key, serializedValue)`
SetItemCall(p, k, v, ttl) ==
    /\ pc[p] = "idle"
    /\ disk' = [disk EXCEPT ![k] = Stringify(v)]
    /\ pc' = [pc EXCEPT ![p] = "setItem"]
    /\ loc' = [loc EXCEPT ![p] = [op |-> "setItem", key |-> k, val |-> v,
                                  ref |-> 0, ttl |-> ttl]]
    /\ lastSet' = [lastSet EXCEPT ![k] = NoSet]
    /\ UNCHANGED <<cache, now, lastOp, appVars>>

\* setItem after the write: cache.set(key, cacheItem)
SetItemResume(p) ==
    /\ pc[p] = "setItem"
    /\ LET l == loc[p] IN
        /\ cache' = CacheSet(cache, l.key, CacheItem(l.val, l.ref, now, l.ttl))
        /\ Completed("setItem", l.key, l.val, Undefined, FALSE)
        /\ lastSet' = [lastSet EXCEPT ![l.key] =
                          [set |-> TRUE, val |-> l.val, ttl |-> l.ttl, at |-> now]]
    /\ pc' = [pc EXCEPT ![p] = "idle"]
    /\ loc' = [loc EXCEPT ![p] = Idle]
    /\ UNCHANGED <<disk, now, appVars>>

\* getItem served from a valid cache entry: returns without suspending
GetItemHit(p, k, dflt) ==
    /\ pc[p] = "idle"
    /\ CacheValid(cache, k, now)
    /\ Completed("getItem", k, dflt, cache[k].data, TRUE)
    /\ UNCHANGED <<disk, cache, now, pc, loc, lastSet, appVars>>

\* getItem on a miss, up to `await AsyncStorage.getItem(key)`
GetItemMiss(p, k, dflt) ==
    /\ pc[p] = "idle"
    /\ ~CacheValid(cache, k, now)
    /\ cache' = GetItemEvict(cache, k, now)
    /\ pc' = [pc EXCEPT ![p] = "getItem"]
    /\ loc' = [loc EXCEPT ![p] = [op |-> "getItem", key |-> k, dflt |-> dflt,
                                  stored |-> disk[k]]]
    /\ UNCHANGED <<disk, now, histVars, appVars>>

\* getItem after the read: parse, fill the cache, return
GetItemResume(p) ==
    /\ pc[p] = "getItem"
    /\ LET l == loc[p] IN
        /\ cache' = GetItemFill(cache, l.key, l.stored, 0, now)
        /\ Completed(IF l.stored # Absent /\ ~Parsable(l.stored)
                         THEN "getItem.failed" ELSE "getItem",
                     l.key, l.dflt, GetItemResult(l.stored, l.dflt), FALSE)
    /\ pc' = [pc EXCEPT ![p] = "idle"]
    /\ loc' = [loc EXCEPT ![p] = Idle]
    /\ UNCHANGED <<disk, now, lastSet, appVars>>

\* removeItem up to `await AsyncStorage.removeItem(key)`
RemoveItemCall(p, k) ==
    /\ pc[p] = "idle"
    /\ disk' = [disk EXCEPT ![k] = Absent]
    /\ pc' = [pc EXCEPT ![p] = "removeItem"]
    /\ loc' = [loc EXCEPT ![p] = [op |-> "removeItem", key |-> k]]
    /\ lastSet' = [lastSet EXCEPT ![k] = NoSet]
    /\ UNCHANGED <<cache, now, lastOp, appVars>>

\* removeItem after the removal: cache.delete(key)
RemoveItemResume(p) ==
    /\ pc[p] = "removeItem"
    /\ cache' = CacheDelete(cache, loc[p].key)
    /\ Completed("removeItem", loc[p].key, Undefined, Undefined, FALSE)
    /\ pc' = [pc EXCEPT ![p] = "idle"]
    /\ loc' = [loc EXCEPT ![p] = Idle]
    /\ UNCHANGED <<disk, now, lastSet, appVars>>

\* The clock advances by a minute.
TickMinute ==
    /\ now + MsPerMinute <= (MaxMinutes + 1) * MsPerMinute
    /\ now' = now + MsPerMinute
    /\ UNCHANGED <<disk, cache, pc, loc, histVars, appVars>>

\* The clock advances by a millisecond.
TickMs ==
    /\ now < MsPerMinute + MaxMs
    /\ now' = now + 1
    /\ UNCHANGED <<disk, cache, pc, loc, histVars, appVars>>

(***************************************************************************)
(* SpecStore: one client calling the generic API on two keys with          *)
(* primitive values, while the clock advances in whole minutes.            *)
(***************************************************************************)
StoreKeys     == {K_STATISTICS, K_SETTINGS}
StoreValues   == {Num(0), Str("a"), NaN}
StoreDefaults == {Undefined, Num(0), Str("d")}
StoreTTLs     == {NoTTL} \cup 1..MaxTTL

InitStore ==
    /\ disk = [k \in STORAGE_KEYS |-> Absent]
    /\ cache = EmptyCache
    /\ now = MsPerMinute
    /\ pc = [p \in Procs |-> "idle"]
    /\ loc = [p \in Procs |-> Idle]
    /\ lastOp = NoOp
    /\ lastSet = [k \in STORAGE_KEYS |-> NoSet]
    /\ ops = 0
    /\ done = NoneDone
    /\ run = NoRun
    /\ race = NoRace
    /\ registeredUsers = <<>>
    /\ user = Null
    /\ loading = FALSE
    /\ shown = <<>>
    /\ selected = NoSelection

NextStore ==
    \/ \E k \in StoreKeys, v \in StoreValues, ttl \in StoreTTLs :
            SetItemCall("p1", k, v, ttl)
    \/ SetItemResume("p1")
    \/ \E k \in StoreKeys, d \in StoreDefaults : GetItemHit("p1", k, d)
    \/ \E k \in StoreKeys, d \in StoreDefaults : GetItemMiss("p1", k, d)
    \/ GetItemResume("p1")
    \/ \E k \in StoreKeys : RemoveItemCall("p1", k)
    \/ RemoveItemResume("p1")
    \/ TickMinute

SpecStore == InitStore /\ [][NextStore]_vars

(***************************************************************************)
(* The generic API when the backend fails: an AsyncStorage promise rejects *)
(* (the backend is left as it was) or JSON.stringify / JSON.parse throws.  *)
(* lastOp.op is then the name of the call followed by ".failed", and       *)
(* lastOp.entry the cache entry of the key when the call started.          *)
(***************************************************************************)
NoEntry == [none |-> TRUE]
EntryOf(c, k) == IF k \in DOMAIN c THEN c[k] ELSE NoEntry

Failed(op, k, arg, ret, entry) ==
    lastOp' = [op |-> op, key |-> k, arg |-> arg, ret |-> ret, hit |-> FALSE,
               after |-> IF lastOp.key = k THEN lastOp.op ELSE "other",
               late |-> FALSE, entry |-> entry]

\* setItem: JSON.stringify(value) throws; catch logs and rethrows.
SetItemThrow(p, k, v, ttl) ==
    /\ pc[p] = "idle"
    /\ ~Serializable(v)
    /\ Failed("setItem.failed", k, v, Thrown, EntryOf(cache, k))
    /\ UNCHANGED <<disk, cache, now, pc, loc, lastSet, appVars>>

\* setItem up to `await AsyncStorage.setItem(...)`, which will reject
SetItemReject(p, k, v, ttl) ==
    /\ pc[p] = "idle"
    /\ Serializable(v)
    /\ pc' = [pc EXCEPT ![p] = "setItem.rejected"]
    /\ loc' = [loc EXCEPT ![p] = [op |-> "setItem", key |-> k, val |-> v,
                                  ttl |-> ttl, entry |-> EntryOf(cache, k)]]
    /\ UNCHANGED <<disk, cache, now, histVars, appVars>>

\* The rejection skips the cache update done in the catch block as well.
SetItemRejected_Cached(p) ==
    /\ pc[p] = "setItem.rejected"
    /\ cache' = CacheSet(cache, loc[p].key,
                         CacheItem(loc[p].val, 0, now, loc[p].ttl))
    /\ Failed("setItem.failed", loc[p].key, loc[p].val, Thrown, loc[p].entry)
    /\ pc' = [pc EXCEPT ![p] = "idle"]
    /\ loc' = [loc EXCEPT ![p] = Idle]
    /\ UNCHANGED <<disk, now, lastSet, appVars>>

\* setItem after the rejection: the cache update is skipped; catch rethrows.
SetItemRejected(p) ==
    /\ pc[p] = "setItem.rejected"
    /\ cache' = cache
    /\ Failed("setItem.failed", loc[p].key, loc[p].val, Thrown, loc[p].entry)
    /\ pc' = [pc EXCEPT ![p] = "idle"]
    /\ loc' = [loc EXCEPT ![p] = Idle]
    /\ UNCHANGED <<disk, now, lastSet, appVars>>

\* getItem on a miss, up to `await AsyncStorage.getItem(key)`, which will reject
GetItemReject(p, k, dflt) ==
    /\ pc[p] = "idle"
    /\ ~CacheValid(cache, k, now)
    /\ cache' = GetItemEvict(cache, k, now)
    /\ pc' = [pc EXCEPT ![p] = "getItem.rejected"]
    /\ loc' = [loc EXCEPT ![p] = [op |-> "getItem", key |-> k, dflt |-> dflt,
                                  entry |-> EntryOf(cache, k)]]
    /\ UNCHANGED <<disk, now, histVars, appVars>>

\* getItem after the rejection: catch returns defaultValue || null
GetItemRejected(p) ==
    /\ pc[p] = "getItem.rejected"
    /\ Failed("getItem.failed", loc[p].key, loc[p].dflt,
              OrElse(loc[p].dflt, Null), loc[p].entry)
    /\ pc' = [pc EXCEPT ![p] = "idle"]
    /\ loc' = [loc EXCEPT ![p] = Idle]
    /\ UNCHANGED <<disk, cache, now, lastSet, appVars>>

\* removeItem up to `await AsyncStorage.removeItem(key)`, which will reject
RemoveItemReject(p, k) ==
    /\ pc[p] = "idle"
    /\ pc' = [pc EXCEPT ![p] = "removeItem.rejected"]
    /\ loc' = [loc EXCEPT ![p] = [op |-> "removeItem", key |-> k,
                                  entry |-> EntryOf(cache, k)]]
    /\ UNCHANGED <<disk, cache, now, histVars, appVars>>

\* removeItem after the rejection: cache.delete is skipped; catch rethrows.
RemoveItemRejected(p) ==
    /\ pc[p] = "removeItem.rejected"
    /\ Failed("removeItem.failed", loc[p].key, Undefined, Thrown, loc[p].entry)
    /\ pc' = [pc EXCEPT ![p] = "idle"]
    /\ loc' = [loc EXCEPT ![p] = Idle]
    /\ UNCHANGED <<disk, cache, now, lastSet, appVars>>

\* clearAll up to `await AsyncStorage.clear()`
ClearAllCall(p) ==
    /\ pc[p] = "idle"
    /\ disk' = [k \in STORAGE_KEYS |-> Absent]
    /\ pc' = [pc EXCEPT ![p] = "clearAll"]
    /\ loc' = [loc EXCEPT ![p] = [op |-> "clearAll"]]
    /\ lastSet' = [k \in STORAGE_KEYS |-> NoSet]
    /\ UNCHANGED <<cache, now, lastOp, appVars>>

\* clearAll after the clear: cache.clear()
ClearAllResume(p) ==
    /\ pc[p] = "clearAll"
    /\ cache' = EmptyCache
    /\ lastOp' = [op |-> "clearAll", key |-> "all", arg |-> Undefined,
                  ret |-> Undefined, hit |-> FALSE, after |-> "other",
                  late |-> FALSE]
    /\ pc' = [pc EXCEPT ![p] = "idle"]
    /\ loc' = [loc EXCEPT ![p] = Idle]
    /\ UNCHANGED <<disk, now, lastSet, appVars>>

\* clearAll up to `await AsyncStorage.clear()`, which will reject
ClearAllReject(p) ==
    /\ pc[p] = "idle"
    /\ pc' = [pc EXCEPT ![p] = "clearAll.rejected"]
    /\ loc' = [loc EXCEPT ![p] = [op |-> "clearAll"]]
    /\ UNCHANGED <<disk, cache, now, histVars, appVars>>

\* clearAll after the rejection: cache.clear() is skipped; catch rethrows.
ClearAllRejected(p) ==
    /\ pc[p] = "clearAll.rejected"
    /\ Failed("clearAll.failed", "all", Undefined, Thrown, NoEntry)
    /\ pc' = [pc EXCEPT ![p] = "idle"]
    /\ loc' = [loc EXCEPT ![p] = Idle]
    /\ UNCHANGED <<disk, cache, now, lastSet, appVars>>

(***************************************************************************)
(* SpecFail: one client calling the generic API while any backend access   *)
(* may fail; the token key holds the bare string the AuthProvider writes.  *)
(***************************************************************************)
FailKeys     == {K_TOKEN, K_SETTINGS}
FailValues   == {Num(0), Str("a"), Circular}
FailDefaults == {Undefined, Num(0), Str("d")}

InitFail ==
    /\ disk \in {[k \in STORAGE_KEYS |-> IF k = K_TOKEN THEN t ELSE Absent] :
                    t \in {Absent, [raw |-> "admin-token"]}}
    /\ cache = EmptyCache
    /\ now = MsPerMinute
    /\ pc = [p \in Procs |-> "idle"]
    /\ loc = [p \in Procs |-> Idle]
    /\ lastOp = NoOp
    /\ lastSet = [k \in STORAGE_KEYS |-> NoSet]
    /\ ops = 0
    /\ done = NoneDone
    /\ run = NoRun
    /\ race = NoRace
    /\ registeredUsers = <<>>
    /\ user = Null
    /\ loading = FALSE
    /\ shown = <<>>
    /\ selected = NoSelection

NextFail ==
    \/ \E k \in FailKeys, v \in FailValues \ {Circular}, ttl \in StoreTTLs :
            SetItemCall("p1", k, v, ttl)
    \/ SetItemResume("p1")
    \/ \E k \in FailKeys, v \in FailValues, ttl \in StoreTTLs :
            SetItemThrow("p1", k, v, ttl)
    \/ \E k \in FailKeys, v \in FailValues, ttl \in StoreTTLs :
            SetItemReject("p1", k, v, ttl)
    \/ SetItemRejected("p1")
    \/ \E k \in FailKeys, d \in FailDefaults : GetItemHit("p1", k, d)
    \/ \E k \in FailKeys, d \in FailDefaults : GetItemMiss("p1", k, d)
    \/ GetItemResume("p1")
    \/ \E k \in FailKeys, d \in FailDefaults : GetItemReject("p1", k, d)
    \/ GetItemRejected("p1")
    \/ \E k \in FailKeys : RemoveItemCall("p1", k)
    \/ RemoveItemResume("p1")
    \/ \E k \in FailKeys : RemoveItemReject("p1", k)
    \/ RemoveItemRejected("p1")
    \/ ClearAllCall("p1")
    \/ ClearAllResume("p1")
    \/ ClearAllReject("p1")
    \/ ClearAllRejected("p1")
    \/ TickMinute

SpecFail == InitFail /\ [][NextFail]_vars

(***************************************************************************)
(* Domain repositories of storageService (appointments, registered users,  *)
(* notifications): getX / addX / updateAppointment / deleteAppointment.    *)
(* Each is getItem(key, []) followed by a transformation and, for the      *)
(* mutators, setItem(key, list).                                           *)
(***************************************************************************)
\* The least identity not in use and not in S.
FreshRefExcept(S) ==
    CHOOSE r \in 1..(Cardinality(RefsInUse \cup S) + 1) : r \notin RefsInUse \cup S

\* appointments.concat(appointment) with the result dropped: nothing is added.
PushItem_Dropped(list, item) == list

\* appointments.push(appointment)
PushItem(list, item) == Arr(Append(list.a, item))

\* A map that writes the patch over the element instead of merging it.
UpdateById_Replace(list, id, patch) ==
    Arr([i \in DOMAIN list.a |->
            IF list.a[i].id = id THEN patch ELSE list.a[i]])

\* appointments.map(apt => apt.id === appointmentId ? { ...apt, ...updates } : apt)
UpdateById(list, id, patch) ==
    Arr([i \in DOMAIN list.a |->
            IF list.a[i].id = id THEN Merge(list.a[i], patch) ELSE list.a[i]])

\* appointments.filter(apt => apt.id !== appointmentId)
DeleteById(list, id) ==
    Arr(SelectSeq(list.a, LAMBDA x : x.id # id))

EmptyList == Arr(<<>>)

\* stored ? JSON.parse(stored) : []
ParseOrEmpty(stored) == IF stored # Absent THEN Parse(stored) ELSE EmptyList

\* An in-place push through the object `ref` is seen through the cache entry
\* that refers to it ...
PushAlias(c, ref, v) ==
    [k \in DOMAIN c |-> IF c[k].ref = ref THEN [c[k] EXCEPT !.data = v] ELSE c[k]]

\* ... and through every suspended call that holds the same object.
LocAlias(l, ref, v) ==
    [q \in Procs |->
        IF "val" \in DOMAIN l[q] /\ l[q].ref = ref
            THEN [l[q] EXCEPT !.val = v]
            ELSE l[q]]

\* A write of key k by p lands: every other caller that has read k from the
\* backend and not yet written now holds a stale snapshot.
Flag(l, p, k) ==
    [q \in Procs |->
        IF q # p /\ "stale" \in DOMAIN l[q] /\ l[q].rkey = k
            THEN [l[q] EXCEPT !.stale = TRUE]
            ELSE l[q]]

\* The string a caller holds across its await: the one its read returned,
\* whatever has been written since.
Snapshot_Live(l) == disk[l.rkey]
Snapshot(l) == l.stored

\* The bookkeeping of a write of key k: `by` is the change, `snapshot` the
\* collection it was computed from; `lost` is the collection it replaces.
Written(k, stale, by, snapshot) ==
    race' = IF stale
               THEN [key |-> k, by |-> by, snapshot |-> snapshot,
                     lost |-> ParseOrEmpty(disk[k])]
               ELSE IF race.key = k THEN NoRace ELSE race

\* What getItem(k, dflt) returns when nothing else runs before it returns.
View(k, dflt) ==
    IF CacheValid(cache, k, now)
        THEN cache[k].data
        ELSE GetItemResult(disk[k], dflt)

\* The bookkeeping of a completed repository call.
RepoDone(req, before, ret) ==
    /\ done' = [op |-> req.kind, req |-> req, before |-> before, ret |-> ret]
    /\ run' = CASE req.kind = "add" /\ req.key = K_APPOINTMENTS ->
                      IF run.active
                          THEN [run EXCEPT !.added = Append(@, req.item)]
                          ELSE [active |-> TRUE, base |-> before,
                                added |-> <<req.item>>]
                 [] req.kind = "get" -> run
                 [] OTHER -> NoRun

\* The call after getItem returned `list` (the object `ref`), with the cache
\* as getItem left it: transform, then setItem up to its backend write.
RepoRest(p, req, list, ref, c, stale) ==
    CASE req.kind = "get" ->
            /\ cache' = c
            /\ pc' = [pc EXCEPT ![p] = "idle"]
            /\ loc' = [loc EXCEPT ![p] = Idle]
            /\ RepoDone(req, list, list)
            /\ UNCHANGED <<disk, race>>
      [] req.kind = "add" ->
            LET v == PushItem(list, req.item) IN
            /\ cache' = PushAlias(c, ref, v)
            /\ disk' = [disk EXCEPT ![req.key] = Stringify(v)]
            /\ pc' = [pc EXCEPT ![p] = "repo.set"]
            /\ loc' = [Flag(LocAlias(loc, ref, v), p, req.key) EXCEPT ![p] =
                          [op |-> "repo", req |-> req, before |-> list,
                           val |-> v, ref |-> ref]]
            /\ Written(req.key, stale, req, list)
            /\ UNCHANGED <<done, run>>
      [] req.kind \in {"update", "delete"} ->
            LET v == IF req.kind = "update"
                        THEN UpdateById(list, req.id, req.patch)
                        ELSE DeleteById(list, req.id) IN
            /\ cache' = c
            /\ disk' = [disk EXCEPT ![req.key] = Stringify(v)]
            /\ pc' = [pc EXCEPT ![p] = "repo.set"]
            /\ loc' = [Flag(loc, p, req.key) EXCEPT ![p] =
                          [op |-> "repo", req |-> req, before |-> list,
                           val |-> v, ref |-> FreshRefExcept({ref})]]
            /\ Written(req.key, stale, req, list)
            /\ UNCHANGED <<done, run>>

\* A repository call whose getItem is served from the cache.
RepoCallHit(p, req) ==
    /\ pc[p] = "idle"
    /\ ops < MaxOps
    /\ ops' = ops + 1
    /\ CacheValid(cache, req.key, now)
    /\ RepoRest(p, req, cache[req.key].data, cache[req.key].ref, cache, FALSE)
    /\ UNCHANGED <<now, histVars, authVars, uiVars>>

\* A repository call whose getItem misses: up to `await AsyncStorage.getItem`.
RepoCallMiss(p, req) ==
    /\ pc[p] = "idle"
    /\ ops < MaxOps
    /\ ops' = ops + 1
    /\ ~CacheValid(cache, req.key, now)
    /\ cache' = GetItemEvict(cache, req.key, now)
    /\ pc' = [pc EXCEPT ![p] = "repo.get"]
    /\ loc' = [loc EXCEPT ![p] = [op |-> "repo", req |-> req,
                                  stored |-> disk[req.key],
                                  rkey |-> req.key, stale |-> FALSE]]
    /\ UNCHANGED <<disk, now, histVars, done, run, race, authVars, uiVars>>

\* getItem resumes after the backend read; the call goes on to its write.
RepoGetResume(p) ==
    /\ pc[p] = "repo.get"
    /\ LET l   == loc[p]
           ref == FreshRef
       IN  RepoRest(p, l.req, GetItemResult(l.stored, EmptyList), ref,
                    GetItemFill(cache, l.req.key, l.stored, ref, now), l.stale)
    /\ UNCHANGED <<now, histVars, ops, authVars, uiVars>>

\* setItem resumes after the backend write: cache.set(key, { data: value })
RepoSetResume(p) ==
    /\ pc[p] = "repo.set"
    /\ LET l == loc[p] IN
        /\ cache' = CacheSet(cache, l.req.key, CacheItem(l.val, l.ref, now, NoTTL))
        /\ RepoDone(l.req, l.before, Undefined)
    /\ pc' = [pc EXCEPT ![p] = "idle"]
    /\ loc' = [loc EXCEPT ![p] = Idle]
    /\ UNCHANGED <<disk, now, histVars, ops, race, authVars, uiVars>>

(***************************************************************************)
(* Values of the app.                                                      *)
(***************************************************************************)
Appt(id, patient, doctor, status) ==
    [id |-> id, patientId |-> patient, doctorId |-> doctor, status |-> status]

ApptInputs == {Appt("a1", "u1", "d1", "pending"), Appt("a2", "u2", "d1", "pending")}
ApptIds    == {"a1", "a2", "a9"}
Patches    == {[status |-> "confirmed"],
               [status |-> "cancelled", cancelReason |-> "r"],
               [cancelReason |-> UndefField]}

ApptRequests ==
    {[kind |-> "get", key |-> K_APPOINTMENTS]}
        \cup {[kind |-> "add", key |-> K_APPOINTMENTS, item |-> a] : a \in ApptInputs}
        \cup {[kind |-> "update", key |-> K_APPOINTMENTS, id |-> i, patch |-> u] :
                    i \in ApptIds, u \in Patches}
        \cup {[kind |-> "delete", key |-> K_APPOINTMENTS, id |-> i] : i \in ApptIds}

Doctors  == {"d1"}
Patients == {"u1"}
Reasons  == {Undefined, Str("r")}

\* Date.now().toString()
IdOf(t) == ToString(t)

\* The bookkeeping of a completed operation that is no repository call.
OtherDone(rec) ==
    /\ done' = rec
    /\ run' = NoRun

(***************************************************************************)
(* notificationService.createNotification, called by the screens through   *)
(* notifyNewAppointment / notifyAppointmentConfirmed / ...Cancelled.       *)
(* It reads and writes AsyncStorage directly, never the cache.             *)
(***************************************************************************)
\* new Date().toISOString() and new Date(iso).getTime(), to the millisecond
Times == 0..((MaxMinutes + 2) * MsPerMinute)
ToISOString(t) == "T" \o ToString(t)
GetTime(iso) ==
    LET n == Len(iso)
        Digit(i) == CHOOSE d \in 0..9 : ToString(d) = SubSeq(iso, i, i)
        Value[i \in 1..n] == IF i = 1 THEN 0 ELSE 10 * Value[i - 1] + Digit(i)
    IN  Value[n]

Notification(t, userId, type, apptId) ==
    [id |-> IdOf(t), userId |-> userId, type |-> type, read |-> FALSE,
     createdAt |-> ToISOString(t), appointmentId |-> apptId]

\* createNotification up to `await AsyncStorage.getItem(STORAGE_KEY)`;
\* `rec` is what the calling handler reports when it has finished.
NotifyCall(p, userId, type, apptId, rec) ==
    /\ pc' = [pc EXCEPT ![p] = "notif.read"]
    /\ loc' = [loc EXCEPT ![p] = [op |-> "notify", userId |-> userId,
                                  type |-> type, apptId |-> apptId, rec |-> rec,
                                  stored |-> disk[K_NOTIFICATIONS],
                                  rkey |-> K_NOTIFICATIONS, stale |-> FALSE]]

\* createNotification after the read: build, push, write the whole list.
NotifyAfterRead(p) ==
    /\ pc[p] = "notif.read"
    /\ LET l == loc[p]
           n == Notification(now, l.userId, l.type, l.apptId)
       IN  /\ disk' = [disk EXCEPT ![K_NOTIFICATIONS] =
                          Stringify(PushItem(ParseOrEmpty(Snapshot(l)), n))]
           /\ loc' = [Flag(loc, p, K_NOTIFICATIONS) EXCEPT ![p] =
                          [op |-> "notify", rec |-> l.rec]]
           /\ Written(K_NOTIFICATIONS, l.stale, [kind |-> "add", item |-> n],
                      ParseOrEmpty(l.stored))
    /\ pc' = [pc EXCEPT ![p] = "notif.write"]
    /\ UNCHANGED <<cache, now, histVars, ops, done, run, authVars, uiVars>>

(***************************************************************************)
(* CreateAppointmentScreen.handleCreateAppointment.                        *)
(***************************************************************************)
\* Up to `await AsyncStorage.getItem('@MedicalApp:appointments')`.
BookCall(p, patient, doctor) ==
    /\ pc[p] = "idle"
    /\ ops < MaxOps
    /\ ops' = ops + 1
    /\ pc' = [pc EXCEPT ![p] = "book.read"]
    /\ loc' = [loc EXCEPT ![p] = [op |-> "book", patient |-> patient,
                                  doctor |-> doctor,
                                  stored |-> disk[K_APPOINTMENTS],
                                  rkey |-> K_APPOINTMENTS, stale |-> FALSE]]
    /\ UNCHANGED <<disk, cache, now, histVars, done, run, race, authVars, uiVars>>

\* Build the appointment (id from the clock, status pending), push, write.
BookAfterRead(p) ==
    /\ pc[p] = "book.read"
    /\ LET l == loc[p]
           a == Appt(IdOf(now), l.patient, l.doctor, "pending")
       IN  /\ disk' = [disk EXCEPT ![K_APPOINTMENTS] =
                          Stringify(PushItem(ParseOrEmpty(Snapshot(l)), a))]
           /\ loc' = [Flag(loc, p, K_APPOINTMENTS) EXCEPT ![p] =
                          [op |-> "book", appt |-> a,
                           before |-> ParseOrEmpty(l.stored)]]
           /\ Written(K_APPOINTMENTS, l.stale, [kind |-> "add", item |-> a],
                      ParseOrEmpty(l.stored))
    /\ pc' = [pc EXCEPT ![p] = "book.write"]
    /\ UNCHANGED <<cache, now, histVars, ops, done, run, authVars, uiVars>>

\* notificationService.notifyNewAppointment(selectedDoctor.id, newAppointment)
BookAfterWrite(p) ==
    /\ pc[p] = "book.write"
    /\ LET l == loc[p] IN
          NotifyCall(p, l.appt.doctorId, "general", l.appt.id,
                     [op |-> "book", appt |-> l.appt, before |-> l.before])
    /\ UNCHANGED <<disk, cache, now, histVars, appVars>>

\* createNotification has written and returns to the handler that called
\* it.  The booking screen navigates back; the doctor's dashboard calls
\* loadAppointments() without awaiting it, which runs up to its read.
NotifyAfterWrite(p) ==
    /\ pc[p] = "notif.write"
    /\ OtherDone(loc[p].rec)
    /\ race' = race
    /\ IF loc[p].rec.op = "book"
          THEN /\ pc' = [pc EXCEPT ![p] = "idle"]
               /\ loc' = [loc EXCEPT ![p] = Idle]
          ELSE /\ pc' = [pc EXCEPT ![p] = "load.read"]
               /\ loc' = [loc EXCEPT ![p] = [op |-> "load",
                                             stored |-> disk[K_APPOINTMENTS]]]
    /\ UNCHANGED <<disk, cache, now, histVars, ops, authVars, uiVars>>

(***************************************************************************)
(* DoctorDashboardScreen: loadAppointments, handleOpenModal,               *)
(* handleConfirmAction (started by AppointmentActionModal.handleConfirm,   *)
(* which closes the modal right after starting it).                        *)
(***************************************************************************)
\* loadAppointments up to `await AsyncStorage.getItem(...)`
DoctorLoadCall(p) ==
    /\ pc[p] = "idle"
    /\ ops < MaxOps
    /\ ops' = ops + 1
    /\ pc' = [pc EXCEPT ![p] = "load.read"]
    /\ loc' = [loc EXCEPT ![p] = [op |-> "load", stored |-> disk[K_APPOINTMENTS]]]
    /\ UNCHANGED <<disk, cache, now, histVars, done, run, race, authVars, uiVars>>

\* setAppointments(allAppointments.filter(a => a.doctorId === user?.id))
DoctorLoadResume(p, doctor) ==
    /\ pc[p] = "load.read"
    /\ shown' = IF loc[p].stored # Absent
                   THEN SelectSeq(Parse(loc[p].stored).a,
                                  LAMBDA a : a.doctorId = doctor)
                   ELSE shown
    /\ pc' = [pc EXCEPT ![p] = "idle"]
    /\ loc' = [loc EXCEPT ![p] = Idle]
    /\ UNCHANGED <<disk, cache, now, histVars, ghostVars, authVars, selected>>

\* handleOpenModal(appointment, action): offered for pending appointments
OpenModal(i, action) ==
    /\ i \in DOMAIN shown
    /\ shown[i].status = "pending"
    /\ selected' = [appt |-> shown[i], action |-> action]
    /\ UNCHANGED <<disk, cache, now, pc, loc, histVars, ghostVars, authVars, shown>>

\* status: actionType === 'confirm' ? 'confirmed' : 'cancelled',
\* ...(reason && { cancelReason: reason })
ActionPatch(action, reason) ==
    LET st == IF action = "confirm" THEN "confirmed" ELSE "cancelled" IN
    IF Falsy(reason)
        THEN [status |-> st]
        ELSE [status |-> st, cancelReason |-> reason.s]

\* handleConfirmAction(reason) up to its read; the modal then closes
\* (handleCloseModal: setSelectedAppointment(null)).  The modal has a
\* reason field in its cancel form only, and hands over `undefined` for an
\* empty one.
DoctorActCall(p, reason) ==
    /\ pc[p] = "idle"
    /\ selected # NoSelection
    /\ selected.action = "confirm" => reason = Undefined
    /\ ops < MaxOps
    /\ ops' = ops + 1
    /\ pc' = [pc EXCEPT ![p] = "act.read"]
    /\ loc' = [loc EXCEPT ![p] = [op |-> "act", sel |-> selected.appt,
                                  action |-> selected.action, reason |-> reason,
                                  stored |-> disk[K_APPOINTMENTS],
                                  rkey |-> K_APPOINTMENTS, stale |-> FALSE]]
    /\ selected' = NoSelection
    /\ UNCHANGED <<disk, cache, now, histVars, done, run, race, authVars, shown>>

\* After the read: nothing is stored and the handler returns, or the mapped
\* list is written.
DoctorActAfterRead(p) ==
    /\ pc[p] = "act.read"
    /\ LET l   == loc[p]
           rec == [op |-> "act", sel |-> l.sel, action |-> l.action,
                   reason |-> l.reason, before |-> ParseOrEmpty(l.stored),
                   wrote |-> l.stored # Absent]
       IN  IF l.stored = Absent
             THEN /\ OtherDone(rec)
                  /\ pc' = [pc EXCEPT ![p] = "idle"]
                  /\ loc' = [loc EXCEPT ![p] = Idle]
                  /\ UNCHANGED <<disk, race>>
             ELSE /\ disk' = [disk EXCEPT ![K_APPOINTMENTS] =
                                 Stringify(UpdateById(Parse(Snapshot(l)), l.sel.id,
                                                      ActionPatch(l.action, l.reason)))]
                  /\ pc' = [pc EXCEPT ![p] = "act.write"]
                  /\ loc' = [Flag(loc, p, K_APPOINTMENTS) EXCEPT ![p] =
                                 [op |-> "act", rec |-> rec]]
                  /\ Written(K_APPOINTMENTS, l.stale,
                             [kind |-> "update", id |-> l.sel.id,
                              patch |-> ActionPatch(l.action, l.reason)],
                             Parse(l.stored))
                  /\ UNCHANGED <<done, run>>
    /\ UNCHANGED <<cache, now, histVars, ops, authVars, uiVars>>

\* notifyAppointmentConfirmed / notifyAppointmentCancelled(patientId, ...)
DoctorActAfterWrite(p) ==
    /\ pc[p] = "act.write"
    /\ LET r == loc[p].rec IN
          NotifyCall(p, r.sel.patientId,
                     IF r.action = "confirm" THEN "appointment_confirmed"
                                             ELSE "appointment_cancelled",
                     r.sel.id, r)
    /\ UNCHANGED <<disk, cache, now, histVars, appVars>>

(***************************************************************************)
(* storageService.createBackup and restoreFromBackup.                      *)
(***************************************************************************)
BackupKeys == <<K_APPOINTMENTS, K_NOTIFICATIONS, K_REGISTERED, K_SETTINGS>>
EmptyObject == Obj([f \in {} |-> ""])
BackupDefaults == <<EmptyList, EmptyList, EmptyList, EmptyObject>>

\* getAppSettings' default
DefaultSettings ==
    Obj([theme |-> "light", notifications |-> "true", language |-> "pt-BR",
         autoBackup |-> "true"])

\* What the repository reads return: getAppointments, getNotifications,
\* getRegisteredUsers, getAppSettings.
RepoViews ==
    <<View(K_APPOINTMENTS, EmptyList), View(K_NOTIFICATIONS, EmptyList),
      View(K_REGISTERED, EmptyList), View(K_SETTINGS, DefaultSettings)>>

\* The getItem calls of createBackup from the i-th on, as far as they are
\* served from the cache: the values collected and the first key that
\* misses (5 when none does).
RECURSIVE BackupHits(_, _, _)
BackupHits(i, vals, c) ==
    IF i > 4 \/ ~CacheValid(c, BackupKeys[i], now)
        THEN [i |-> i, vals |-> vals]
        ELSE BackupHits(i + 1, Append(vals, c[BackupKeys[i]].data), c)

\* JSON.stringify({ timestamp, data: { appointments, notifications, ... } })
BackupDoc(vals, t) ==
    [json |-> [timestamp |-> t,
               data |-> [appointments    |-> ToJSON(vals[1]),
                         notifications   |-> ToJSON(vals[2]),
                         registeredUsers |-> ToJSON(vals[3]),
                         settings        |-> ToJSON(vals[4])]]]

\* createBackup from the i-th getItem on, with the cache c: either it
\* suspends at the backend read of the first key that misses, or it returns.
BackupRest(p, i, vals, c, rec) ==
    LET h == BackupHits(i, vals, c) IN
    IF h.i > 4
        THEN /\ cache' = c
             /\ pc' = [pc EXCEPT ![p] = "idle"]
             /\ loc' = [loc EXCEPT ![p] = Idle]
             /\ OtherDone([rec EXCEPT !.ret = BackupDoc(h.vals, now)])
        ELSE /\ cache' = GetItemEvict(c, BackupKeys[h.i], now)
             /\ pc' = [pc EXCEPT ![p] = "backup.get"]
             /\ loc' = [loc EXCEPT ![p] = [op |-> "backup", i |-> h.i,
                                           vals |-> h.vals, rec |-> rec,
                                           stored |-> disk[BackupKeys[h.i]]]]
             /\ UNCHANGED <<done, run>>

CreateBackupCall(p) ==
    /\ pc[p] = "idle"
    /\ ops < MaxOps
    /\ ops' = ops + 1
    /\ BackupRest(p, 1, <<>>, cache,
                  [op |-> "backup", views |-> RepoViews, diskAt |-> disk,
                   ret |-> Undefined])
    /\ UNCHANGED <<disk, now, histVars, race, authVars, uiVars>>

CreateBackupResume(p) ==
    /\ pc[p] = "backup.get"
    /\ LET l == loc[p]
           k == BackupKeys[l.i]
       IN  BackupRest(p, l.i + 1,
                      Append(l.vals, GetItemResult(l.stored, BackupDefaults[l.i])),
                      GetItemFill(cache, k, l.stored, FreshRef, now), l.rec)
    /\ UNCHANGED <<disk, now, histVars, ops, race, authVars, uiVars>>

\* r.f of a parsed document: undefined when the property is missing
Field(r, f) == IF f \in DOMAIN r THEN r[f] ELSE Undefined

\* backup.data.appointments || [], ..., backup.data.settings || {}
RestoreValues_NoDefault(doc) ==
    LET d == Parse(doc).data IN
    <<Field(d, "appointments"), Field(d, "notifications"),
      Field(d, "registeredUsers"), Field(d, "settings")>>

RestoreValues(doc) ==
    LET d == Parse(doc).data IN
    <<OrElse(Field(d, "appointments"), EmptyList),
      OrElse(Field(d, "notifications"), EmptyList),
      OrElse(Field(d, "registeredUsers"), EmptyList),
      OrElse(Field(d, "settings"), EmptyObject)>>

\* restoreFromBackup up to the backend write of the first setItem.
RestoreCall(p, doc, rec) ==
    /\ pc[p] = "idle"
    /\ ops < MaxOps
    /\ ops' = ops + 1
    /\ disk' = [disk EXCEPT ![BackupKeys[1]] = Stringify(RestoreValues(doc)[1])]
    /\ Written(BackupKeys[1], FALSE, Undefined, Undefined)
    /\ pc' = [pc EXCEPT ![p] = "restore.set"]
    /\ loc' = [Flag(loc, p, BackupKeys[1]) EXCEPT ![p] = [op |-> "restore", i |-> 1,
                                  vals |-> RestoreValues(doc), rec |-> rec,
                                  ref |-> FreshRef]]
    /\ UNCHANGED <<cache, now, histVars, done, run, authVars, uiVars>>

\* restoreFromBackup(await createBackup())
RestoreLastBackup(p) ==
    /\ done.op = "backup"
    /\ RestoreCall(p, done.ret,
                   [op |-> "restore", views |-> done.views, doc |-> done.ret])

\* The i-th setItem resumes (cache.set); the next one runs up to its write.
RestoreStep(p) ==
    /\ pc[p] = "restore.set"
    /\ LET l == loc[p]
           c == CacheSet(cache, BackupKeys[l.i],
                         CacheItem(l.vals[l.i], l.ref, now, NoTTL))
       IN  /\ cache' = c
           /\ IF l.i < 4
                 THEN /\ disk' = [disk EXCEPT ![BackupKeys[l.i + 1]] =
                                     Stringify(l.vals[l.i + 1])]
                      /\ Written(BackupKeys[l.i + 1], FALSE, Undefined, Undefined)
                      /\ pc' = pc
                      /\ loc' = [Flag(loc, p, BackupKeys[l.i + 1]) EXCEPT
                                     ![p].i = l.i + 1,
                                     ![p].ref = FreshRefExcept({l.ref})]
                      /\ UNCHANGED <<done, run>>
                 ELSE /\ disk' = disk
                      /\ race' = race
                      /\ pc' = [pc EXCEPT ![p] = "idle"]
                      /\ loc' = [loc EXCEPT ![p] = Idle]
                      /\ OtherDone(l.rec)
    /\ UNCHANGED <<now, histVars, ops, authVars, uiVars>>

InitApp ==
    /\ disk \in {[k \in STORAGE_KEYS |-> IF k = K_APPOINTMENTS THEN d ELSE Absent] :
                    d \in {Absent, Stringify(EmptyList),
                           Stringify(Arr(<<Appt("a1", "u1", "d1", "pending")>>))}}
    /\ cache = EmptyCache
    /\ now = MsPerMinute
    /\ pc = [p \in Procs |-> "idle"]
    /\ loc = [p \in Procs |-> Idle]
    /\ lastOp = NoOp
    /\ lastSet = [k \in STORAGE_KEYS |-> NoSet]
    /\ ops = 0
    /\ done = NoneDone
    /\ run = NoRun
    /\ race = NoRace
    /\ registeredUsers = <<>>
    /\ user = Null
    /\ loading = FALSE
    /\ shown = <<>>
    /\ selected = NoSelection

NextApp ==
    \/ \E req \in ApptRequests : RepoCallHit("p1", req)
    \/ \E req \in ApptRequests : RepoCallMiss("p1", req)
    \/ RepoGetResume("p1")
    \/ RepoSetResume("p1")
    \/ \E u \in Patients, d \in Doctors : BookCall("p1", u, d)
    \/ BookAfterRead("p1")
    \/ BookAfterWrite("p1")
    \/ NotifyAfterRead("p1")
    \/ NotifyAfterWrite("p1")
    \/ DoctorLoadCall("p1")
    \/ \E d \in Doctors : DoctorLoadResume("p1", d)
    \/ \E i \in 1..MaxOps + 1, a \in {"confirm", "cancel"} : OpenModal(i, a)
    \/ \E r \in Reasons : DoctorActCall("p1", r)
    \/ DoctorActAfterRead("p1")
    \/ DoctorActAfterWrite("p1")
    \/ CreateBackupCall("p1")
    \/ CreateBackupResume("p1")
    \/ RestoreLastBackup("p1")
    \/ RestoreStep("p1")
    \/ TickMs

SpecApp == InitApp /\ [][NextApp]_vars

(***************************************************************************)
(* The screens that list appointments: each reads one backend key on       *)
(* focus and keeps the list it had when nothing is stored under it.        *)
(***************************************************************************)
\* HomeScreen reads AsyncStorage.getItem('appointments')
K_HOME == "appointments"

\* AsyncStorage.getItem(k): null for a key the app never writes.
Backend(k) == IF k \in DOMAIN disk THEN disk[k] ELSE Absent

\* HomeScreen.loadAppointments: setAppointments(JSON.parse(stored))
HomeLoad(prev) ==
    IF Backend(K_HOME) # Absent THEN Parse(Backend(K_HOME)).a ELSE prev

\* PatientDashboardScreen.loadAppointments: the patient's own appointments
PatientLoad(patient, prev) ==
    IF Backend(K_APPOINTMENTS) # Absent
        THEN SelectSeq(Parse(Backend(K_APPOINTMENTS)).a,
                       LAMBDA a : a.patientId = patient)
        ELSE prev

\* DoctorDashboardScreen.loadAppointments: the doctor's own appointments
DoctorLoad(doctor, prev) ==
    IF Backend(K_APPOINTMENTS) # Absent
        THEN SelectSeq(Parse(Backend(K_APPOINTMENTS)).a,
                       LAMBDA a : a.doctorId = doctor)
        ELSE prev

(***************************************************************************)
(* addAppointment when the backend write inside setItem rejects: the push  *)
(* has already been made on the array getItem returned; setItem skips its  *)
(* cache.set and rethrows.                                                 *)
(***************************************************************************)
\* appointments.push(appointment), then setItem up to the rejecting write
RepoAddReject(p, req, list, ref, c) ==
    LET v == PushItem(list, req.item) IN
    /\ cache' = PushAlias(c, ref, v)
    /\ pc' = [pc EXCEPT ![p] = "repo.rejected"]
    /\ loc' = [LocAlias(loc, ref, v) EXCEPT ![p] =
                  [op |-> "repo", req |-> req, before |-> list]]
    /\ UNCHANGED <<disk, done, run, race>>

\* An add whose getItem is served from the cache and whose write will reject.
RepoCallHitReject(p, req) ==
    /\ pc[p] = "idle"
    /\ ops < MaxOps
    /\ ops' = ops + 1
    /\ req.kind = "add"
    /\ CacheValid(cache, req.key, now)
    /\ RepoAddReject(p, req, cache[req.key].data, cache[req.key].ref, cache)
    /\ UNCHANGED <<now, histVars, authVars, uiVars>>

\* getItem resumes after the backend read; the write of the add will reject.
RepoGetResumeReject(p) ==
    /\ pc[p] = "repo.get"
    /\ loc[p].req.kind = "add"
    /\ LET l   == loc[p]
           ref == FreshRef
       IN  RepoAddReject(p, l.req, GetItemResult(l.stored, EmptyList), ref,
                         GetItemFill(cache, l.req.key, l.stored, ref, now))
    /\ UNCHANGED <<now, histVars, ops, authVars, uiVars>>

\* setItem's catch rethrows; addAppointment throws.
RepoSetRejected(p) ==
    /\ pc[p] = "repo.rejected"
    /\ done' = [op |-> "add.failed", req |-> loc[p].req,
                before |-> loc[p].before, ret |-> Thrown]
    /\ run' = NoRun
    /\ pc' = [pc EXCEPT ![p] = "idle"]
    /\ loc' = [loc EXCEPT ![p] = Idle]
    /\ UNCHANGED <<disk, cache, now, histVars, ops, race, authVars, uiVars>>

NextAddFail ==
    \/ \E req \in ApptRequests : RepoCallHit("p1", req)
    \/ \E req \in ApptRequests : RepoCallMiss("p1", req)
    \/ RepoGetResume("p1")
    \/ RepoSetResume("p1")
    \/ \E req \in ApptRequests : RepoCallHitReject("p1", req)
    \/ RepoGetResumeReject("p1")
    \/ RepoSetRejected("p1")

SpecAddFail == InitApp /\ [][NextAddFail]_vars

(***************************************************************************)
(* services/auth.ts and contexts/AuthContext.tsx.  "p1" runs                *)
(* loadStoredUser and, once the provider has rendered its children, the    *)
(* handlers of the login and register screens; "p2" runs                   *)
(* loadRegisteredUsers.                                                    *)
(***************************************************************************)
mockDoctors ==
    <<[id |-> "1", name |-> "Dr. Joao Silva", email |-> "joao@example.com",
       role |-> "doctor", specialty |-> "Cardiologia", image |-> "men/1.jpg"],
      [id |-> "2", name |-> "Dra. Maria Santos", email |-> "maria@example.com",
       role |-> "doctor", specialty |-> "Pediatria", image |-> "women/1.jpg"],
      [id |-> "3", name |-> "Dr. Pedro Oliveira", email |-> "pedro@example.com",
       role |-> "doctor", specialty |-> "Ortopedia", image |-> "men/2.jpg"]>>

mockAdmin ==
    [id |-> "admin", name |-> "Administrador", email |-> "admin@example.com",
     role |-> "admin", image |-> "men/3.jpg"]

MockPassword == "123456"

\* const { password, ...rest } = r
Without(r, f) == [g \in DOMAIN r \ {f} |-> r[g]]

\* The index Array.prototype.find stops at.
First(S) == CHOOSE i \in S : \A j \in S : i <= j

\* authService.signIn: admin, then mock doctors, then registered patients.
SignInResult(users, email, password) ==
    LET ds == {i \in DOMAIN mockDoctors :
                  mockDoctors[i].email = email /\ password = MockPassword}
        ps == {i \in DOMAIN users : users[i].email = email}
    IN  IF email = mockAdmin.email /\ password = MockPassword
            THEN [ok |-> TRUE, user |-> mockAdmin, token |-> "admin-token"]
        ELSE IF ds # {}
            THEN [ok |-> TRUE, user |-> mockDoctors[First(ds)],
                  token |-> "doctor-token-" \o mockDoctors[First(ds)].id]
        ELSE IF ps # {} /\ users[First(ps)].password = password
            THEN [ok |-> TRUE, user |-> Without(users[First(ps)], "password"),
                  token |-> "patient-token-" \o users[First(ps)].id]
        ELSE [ok |-> FALSE]

\* authService.register, step 1: the e-mail is already taken
EmailInUse(users, email) ==
    \/ \E i \in DOMAIN mockDoctors : mockDoctors[i].email = email
    \/ mockAdmin.email = email
    \/ \E i \in DOMAIN users : users[i].email = email

\* authService.register, step 2
NewPatient(users, data) ==
    [id |-> "patient-" \o ToString(Len(users) + 1),
     name |-> data.name, email |-> data.email, role |-> "patient",
     image |-> (IF Len(users) % 2 = 0 THEN "men" ELSE "women") \o "/"
                  \o ToString(Len(users) + 1) \o ".jpg",
     password |-> data.password]

\* AsyncStorage.setItem(STORAGE_KEYS.TOKEN, response.token): the bare string
RawString(s) == [raw |-> s]

\* useEffect(() => { loadStoredUser(); loadRegisteredUsers(); }, []): each
\* runs up to its AsyncStorage.getItem.
AuthMount ==
    /\ pc["p1"] = "init"
    /\ pc' = [pc EXCEPT !["p1"] = "stored.read", !["p2"] = "users.read"]
    /\ loc' = [loc EXCEPT !["p1"] = [op |-> "loadStoredUser",
                                     stored |-> disk[K_USER]],
                          !["p2"] = [op |-> "loadRegisteredUsers",
                                     stored |-> disk[K_REGISTERED]]]
    /\ UNCHANGED <<disk, cache, now, histVars, ghostVars, authVars, uiVars>>

\* A start that restores no user.
LoadStoredUserResume_Forget(p) ==
    /\ pc[p] = "stored.read"
    /\ user' = user
    /\ loading' = FALSE
    /\ pc' = [pc EXCEPT ![p] = "idle"]
    /\ loc' = [loc EXCEPT ![p] = Idle]
    /\ UNCHANGED <<disk, cache, now, histVars, ghostVars, registeredUsers, uiVars>>

\* loadStoredUser after authService.getStoredUser: setUser when one is
\* stored; finally setLoading(false).
LoadStoredUserResume(p) ==
    /\ pc[p] = "stored.read"
    /\ user' = IF loc[p].stored # Absent THEN Parse(loc[p].stored) ELSE user
    /\ loading' = FALSE
    /\ pc' = [pc EXCEPT ![p] = "idle"]
    /\ loc' = [loc EXCEPT ![p] = Idle]
    /\ UNCHANGED <<disk, cache, now, histVars, ghostVars, registeredUsers, uiVars>>

\* authService.loadRegisteredUsers after its read
LoadRegisteredUsersResume(p) ==
    /\ pc[p] = "users.read"
    /\ registeredUsers' = IF loc[p].stored # Absent
                             THEN Parse(loc[p].stored).a
                             ELSE registeredUsers
    /\ pc' = [pc EXCEPT ![p] = "idle"]
    /\ loc' = [loc EXCEPT ![p] = Idle]
    /\ UNCHANGED <<disk, cache, now, histVars, ghostVars, user, loading, uiVars>>

\* AppNavigator renders nothing while loading, and the login and register
\* screens only while no user is set.
LoginShown == ~loading /\ user = Null

\* Whether authService.loadRegisteredUsers has completed.
UsersLoaded == pc["p2"] = "idle"

\* AuthContext.signIn: authService.signIn throws, or setUser and the
\* write of USER.
SignInCall(p, email, password) ==
    /\ pc[p] = "idle"
    /\ LoginShown
    /\ ops < MaxOps
    /\ ops' = ops + 1
    /\ LET r   == SignInResult(registeredUsers, email, password)
           rec == [op |-> "signIn", email |-> email, password |-> password,
                   ok |-> r.ok, loaded |-> UsersLoaded,
                   user |-> IF r.ok THEN r.user ELSE Null,
                   stored |-> ParseOrEmpty(disk[K_REGISTERED]).a]
       IN  IF r.ok
             THEN /\ user' = Obj(r.user)
                  /\ disk' = [disk EXCEPT ![K_USER] = Stringify(Obj(r.user))]
                  /\ pc' = [pc EXCEPT ![p] = "auth.user"]
                  /\ loc' = [loc EXCEPT ![p] = [op |-> "auth", token |-> r.token,
                                                rec |-> rec]]
                  /\ UNCHANGED <<done, run>>
             ELSE /\ OtherDone(rec)
                  /\ UNCHANGED <<user, disk, pc, loc>>
    /\ UNCHANGED <<cache, now, histVars, race, registeredUsers, loading, uiVars>>

\* AuthContext.register up to the write of REGISTERED_USERS inside
\* authService.register, or its throw.
RegisterCall(p, data) ==
    /\ pc[p] = "idle"
    /\ LoginShown
    /\ ops < MaxOps
    /\ ops' = ops + 1
    /\ LET n   == NewPatient(registeredUsers, data)
           rec == [op |-> "register", email |-> data.email,
                   ok |-> ~EmailInUse(registeredUsers, data.email),
                   loaded |-> UsersLoaded,
                   user |-> Without(n, "password"),
                   stored |-> ParseOrEmpty(disk[K_REGISTERED]).a]
       IN  IF rec.ok
             THEN /\ registeredUsers' = Append(registeredUsers, n)
                  /\ disk' = [disk EXCEPT ![K_REGISTERED] =
                                 Stringify(Arr(Append(registeredUsers, n)))]
                  /\ pc' = [pc EXCEPT ![p] = "register.set"]
                  /\ loc' = [loc EXCEPT ![p] =
                                [op |-> "register",
                                 user |-> Without(n, "password"),
                                 token |-> "patient-token-" \o n.id,
                                 rec |-> rec]]
                  /\ UNCHANGED <<done, run>>
             ELSE /\ OtherDone(rec)
                  /\ UNCHANGED <<registeredUsers, disk, pc, loc>>
    /\ UNCHANGED <<cache, now, histVars, race, user, loading, uiVars>>

\* authService.register has returned: setUser and the write of USER
RegisterAfterSet(p) ==
    /\ pc[p] = "register.set"
    /\ user' = Obj(loc[p].user)
    /\ disk' = [disk EXCEPT ![K_USER] = Stringify(Obj(loc[p].user))]
    /\ pc' = [pc EXCEPT ![p] = "auth.user"]
    /\ loc' = [loc EXCEPT ![p] = [op |-> "auth", token |-> loc[p].token,
                                  rec |-> loc[p].rec]]
    /\ UNCHANGED <<cache, now, histVars, ghostVars, registeredUsers, loading, uiVars>>

\* await AsyncStorage.setItem(STORAGE_KEYS.TOKEN, response.token)
AuthAfterUser(p) ==
    /\ pc[p] = "auth.user"
    /\ disk' = [disk EXCEPT ![K_TOKEN] = RawString(loc[p].token)]
    /\ OtherDone(loc[p].rec)
    /\ pc' = [pc EXCEPT ![p] = "idle"]
    /\ loc' = [loc EXCEPT ![p] = Idle]
    /\ UNCHANGED <<cache, now, histVars, ops, race, authVars, uiVars>>

\* AuthContext.signOut up to authService.signOut's removeItem(USER)
SignOutCall(p) ==
    /\ pc[p] = "idle"
    /\ ~loading
    /\ user # Null
    /\ ops < MaxOps
    /\ ops' = ops + 1
    /\ disk' = [disk EXCEPT ![K_USER] = Absent]
    /\ pc' = [pc EXCEPT ![p] = "signout"]
    /\ loc' = [loc EXCEPT ![p] = [op |-> "signOut", i |-> 1]]
    /\ UNCHANGED <<cache, now, histVars, done, run, race, authVars, uiVars>>

\* The remaining steps: removeItem(TOKEN) in the service; setUser(null) and
\* removeItem(USER) in the context; removeItem(TOKEN) in the context.
SignOutStep(p) ==
    /\ pc[p] = "signout"
    /\ LET i == loc[p].i IN
        /\ disk' = [disk EXCEPT ![IF i = 2 THEN K_USER ELSE K_TOKEN] = Absent]
        /\ user' = IF i = 2 THEN Null ELSE user
        /\ IF i < 3
              THEN /\ pc' = pc
                   /\ loc' = [loc EXCEPT ![p].i = i + 1]
                   /\ UNCHANGED <<done, run>>
              ELSE /\ pc' = [pc EXCEPT ![p] = "idle"]
                   /\ loc' = [loc EXCEPT ![p] = Idle]
                   /\ OtherDone([op |-> "signOut"])
    /\ UNCHANGED <<cache, now, histVars, ops, race, registeredUsers, loading, uiVars>>

Ana == [id |-> "patient-1", name |-> "Ana", email |-> "ana@example.com",
        role |-> "patient", image |-> "men/1.jpg", password |-> "pw"]

Emails    == {"admin@example.com", "joao@example.com", "ana@example.com",
              "bia@example.com"}
Passwords == {MockPassword, "pw"}
RegisterInputs ==
    {[name |-> "N", email |-> e, password |-> "pw"] : e \in Emails}

\* The process starts: the module's registeredUsers is [], the provider's
\* user is null and loading is true; the backend holds what earlier runs
\* of the app left.
InitAuth ==
    /\ \E users \in {Absent, Stringify(Arr(<<Ana>>))},
          session \in {Absent, Stringify(Obj(Without(Ana, "password")))} :
            disk = [k \in STORAGE_KEYS |->
                       IF k = K_REGISTERED THEN users
                       ELSE IF k = K_USER THEN session
                       ELSE IF k = K_TOKEN /\ session # Absent
                           THEN RawString("patient-token-" \o Ana.id)
                       ELSE Absent]
    /\ cache = EmptyCache
    /\ now = MsPerMinute
    /\ pc = [p \in Procs |-> "init"]
    /\ loc = [p \in Procs |-> Idle]
    /\ lastOp = NoOp
    /\ lastSet = [k \in STORAGE_KEYS |-> NoSet]
    /\ ops = 0
    /\ done = NoneDone
    /\ run = NoRun
    /\ race = NoRace
    /\ registeredUsers = <<>>
    /\ user = Null
    /\ loading = TRUE
    /\ shown = <<>>
    /\ selected = NoSelection

NextAuth ==
    \/ AuthMount
    \/ LoadStoredUserResume("p1")
    \/ LoadRegisteredUsersResume("p2")
    \/ \E e \in Emails, pw \in Passwords : SignInCall("p1", e, pw)
    \/ \E d \in RegisterInputs : RegisterCall("p1", d)
    \/ RegisterAfterSet("p1")
    \/ AuthAfterUser("p1")
    \/ SignOutCall("p1")
    \/ SignOutStep("p1")

SpecAuth == InitAuth /\ [][NextAuth]_vars

(***************************************************************************)
(* Restarts.  The process ends and a new one starts: the module state of   *)
(* auth.ts and storage.ts and the provider's state are initial again, the  *)
(* backend keeps what was written.  A handler cut short by the end of the  *)
(* process never completes.                                                *)
(***************************************************************************)
Restart ==
    /\ ops < MaxOps
    /\ ops' = ops + 1
    /\ pc' = [p \in Procs |-> "init"]
    /\ loc' = [p \in Procs |-> Idle]
    /\ registeredUsers' = <<>>
    /\ user' = Null
    /\ loading' = TRUE
    /\ cache' = EmptyCache
    /\ shown' = <<>>
    /\ selected' = NoSelection
    /\ done' = IF pc["p1"] \in {"auth.user", "register.set", "signout"}
                  THEN [op |-> "interrupted"] ELSE done
    /\ UNCHANGED <<disk, now, histVars, run, race>>

NextSession ==
    \/ NextAuth
    \/ Restart

SpecSession == InitAuth /\ [][NextSession]_vars

(***************************************************************************)
(* SettingsScreen.handleClearAllData: storageService.clearAll(), then the  *)
(* alert whose OK button calls signOut().  The screen is shown to a        *)
(* signed-in user.                                                         *)
(***************************************************************************)
EraseCall(p) ==
    /\ ~loading
    /\ user # Null
    /\ ClearAllCall(p)

NextErase ==
    \/ NextSession
    \/ EraseCall("p1")
    \/ ClearAllResume("p1")

SpecErase == InitAuth /\ [][NextErase]_vars

(***************************************************************************)
(* notificationService: getNotifications, getUnreadCount and the mutators  *)
(* createNotification, markAsRead, markAllAsRead, deleteNotification.      *)
(* Each mutator reads the whole list, transforms it and writes it back     *)
(* inside a try whose catch only logs.                                     *)
(***************************************************************************)
\* A sort that puts an element before the elements of equal createdAt.
InsertStable_Before(sorted, x) ==
    LET k == Cardinality({i \in DOMAIN sorted :
                 GetTime(sorted[i].createdAt) > GetTime(x.createdAt)})
    IN  SubSeq(sorted, 1, k) \o <<x>> \o SubSeq(sorted, k + 1, Len(sorted))

\* Array.prototype.sort is stable: with the comparator
\* (a, b) => getTime(b.createdAt) - getTime(a.createdAt) an element goes
\* after every element that is not older than it.
InsertStable(sorted, x) ==
    LET k == Cardinality({i \in DOMAIN sorted :
                 GetTime(sorted[i].createdAt) >= GetTime(x.createdAt)})
    IN  SubSeq(sorted, 1, k) \o <<x>> \o SubSeq(sorted, k + 1, Len(sorted))

RECURSIVE SortByCreatedAtDesc(_)
SortByCreatedAtDesc(seq) ==
    IF seq = <<>> THEN <<>>
    ELSE InsertStable(SortByCreatedAtDesc(SubSeq(seq, 1, Len(seq) - 1)),
                      seq[Len(seq)])

\* allNotifications.filter(n => n.userId === userId).sort(...)
NotificationsOf(list, userId) ==
    SortByCreatedAtDesc(SelectSeq(list.a, LAMBDA n : n.userId = userId))

\* notifications.filter(n => !n.read).length
UnreadCount(seq) == Len(SelectSeq(seq, LAMBDA n : ~n.read))

\* The list a mutator writes back.
NotifTransform(req, list, t) ==
    CASE req.kind = "createNotification" ->
            PushItem(list, Notification(t, req.userId, req.type, req.apptId))
      [] req.kind = "markAsRead" ->
            Arr([i \in DOMAIN list.a |->
                    IF list.a[i].id = req.id
                        THEN Merge(list.a[i], [read |-> TRUE]) ELSE list.a[i]])
      [] req.kind = "markAllAsRead" ->
            Arr([i \in DOMAIN list.a |->
                    IF list.a[i].userId = req.userId
                        THEN Merge(list.a[i], [read |-> TRUE]) ELSE list.a[i]])
      [] req.kind = "deleteNotification" -> DeleteById(list, req.id)

\* A mutator, or getNotifications / getUnreadCount, up to
\* `await AsyncStorage.getItem(STORAGE_KEY)`.
NotifCall(p, req) ==
    /\ pc[p] = "idle"
    /\ ops < MaxOps
    /\ ops' = ops + 1
    /\ pc' = [pc EXCEPT ![p] = "nop.read"]
    /\ loc' = [loc EXCEPT ![p] = [op |-> "notif", req |-> req,
                                  stored |-> disk[K_NOTIFICATIONS],
                                  rkey |-> K_NOTIFICATIONS, stale |-> FALSE]]
    /\ UNCHANGED <<disk, cache, now, histVars, done, run, race, authVars, uiVars>>

\* The bookkeeping of a completed notificationService call: `after` names
\* the user of a markAllAsRead that returned just before.
NotifDone(req, list, ret, failed) ==
    /\ done' = [op |-> req.kind, req |-> req, list |-> list, ret |-> ret,
                failed |-> failed, threw |-> FALSE,
                after |-> IF done.op = "markAllAsRead"
                             THEN done.req.userId ELSE "none"]
    /\ run' = NoRun

\* After the read.  io tells what the backend does: the read rejects
\* ("read"), the write is going to reject ("write"), or neither ("ok").
\* A rejected read ends the call in the catch: the getters return [] / 0,
\* the mutators return normally.
NotifAfterRead(p, io) ==
    /\ pc[p] = "nop.read"
    /\ LET l    == loc[p]
           req  == l.req
           list == ParseOrEmpty(Snapshot(l))
           get  == req.kind \in {"getNotifications", "getUnreadCount"}
       IN  IF io = "read"
             THEN /\ NotifDone(req, EmptyList,
                               IF req.kind = "getNotifications" THEN <<>>
                               ELSE IF req.kind = "getUnreadCount" THEN 0
                               ELSE Undefined, TRUE)
                  /\ pc' = [pc EXCEPT ![p] = "idle"]
                  /\ loc' = [loc EXCEPT ![p] = Idle]
                  /\ UNCHANGED <<disk, race>>
           ELSE IF get
             THEN /\ io = "ok"
                  /\ NotifDone(req, list,
                               IF req.kind = "getNotifications"
                                   THEN NotificationsOf(list, req.userId)
                                   ELSE UnreadCount(NotificationsOf(list, req.userId)),
                               FALSE)
                  /\ pc' = [pc EXCEPT ![p] = "idle"]
                  /\ loc' = [loc EXCEPT ![p] = Idle]
                  /\ UNCHANGED <<disk, race>>
           ELSE /\ disk' = IF io = "ok"
                              THEN [disk EXCEPT ![K_NOTIFICATIONS] =
                                      Stringify(NotifTransform(req, list, now))]
                              ELSE disk
                /\ IF io = "ok"
                      THEN Written(K_NOTIFICATIONS, l.stale,
                                   [kind |-> "add", item |-> [id |-> "none"]],
                                   ParseOrEmpty(l.stored))
                      ELSE race' = race
                /\ pc' = [pc EXCEPT ![p] = "nop.write"]
                /\ loc' = [(IF io = "ok" THEN Flag(loc, p, K_NOTIFICATIONS) ELSE loc)
                              EXCEPT ![p] = [op |-> "notif", req |-> req,
                                             list |-> list, failed |-> io # "ok"]]
                /\ UNCHANGED <<done, run>>
    /\ UNCHANGED <<cache, now, histVars, ops, authVars, uiVars>>

\* A mutator after `await AsyncStorage.setItem(...)`: it returns, also
\* when the write was rejected (catch logs).
NotifAfterWrite(p) ==
    /\ pc[p] = "nop.write"
    /\ NotifDone(loc[p].req, loc[p].list, Undefined, loc[p].failed)
    /\ pc' = [pc EXCEPT ![p] = "idle"]
    /\ loc' = [loc EXCEPT ![p] = Idle]
    /\ UNCHANGED <<disk, cache, now, histVars, ops, race, authVars, uiVars>>

NotifUsers == {"u1", "d1"}
NotifIds   == {"60000", "n9"}
NotifRequests ==
    {[kind |-> k, userId |-> u] :
        k \in {"getNotifications", "getUnreadCount", "markAllAsRead"},
        u \in NotifUsers}
    \cup {[kind |-> k, id |-> i] : k \in {"markAsRead", "deleteNotification"},
                                   i \in NotifIds}
    \cup {[kind |-> "createNotification", userId |-> u,
           type |-> "appointment_reminder", apptId |-> "a1"] : u \in NotifUsers}

\* The notifications a stored collection is drawn from: the backend holds
\* what earlier runs, restores and clocks left, in any order.
MaxStored == 2
StoredNotifications ==
    {[Notification(t, u, "general", "a1") EXCEPT !.read = r] :
        t \in {MsPerMinute, MsPerMinute + 1}, u \in NotifUsers, r \in BOOLEAN}
StoredLists ==
    UNION {[1..n -> StoredNotifications] : n \in 0..MaxStored}

InitNotif ==
    /\ disk \in {[k \in STORAGE_KEYS |-> IF k = K_NOTIFICATIONS THEN d ELSE Absent] :
                    d \in {Absent} \cup {Stringify(Arr(l)) : l \in StoredLists}}
    /\ cache = EmptyCache
    /\ now = MsPerMinute
    /\ pc = [p \in Procs |-> "idle"]
    /\ loc = [p \in Procs |-> Idle]
    /\ lastOp = NoOp
    /\ lastSet = [k \in STORAGE_KEYS |-> NoSet]
    /\ ops = 0
    /\ done = NoneDone
    /\ run = NoRun
    /\ race = NoRace
    /\ registeredUsers = <<>>
    /\ user = Null
    /\ loading = FALSE
    /\ shown = <<>>
    /\ selected = NoSelection

\* The notificationService calls started in one run.
MaxNotifOps == 3

NextNotif ==
    \/ ops < MaxNotifOps /\ \E req \in NotifRequests : NotifCall("p1", req)
    \/ \E io \in {"ok", "read", "write"} : NotifAfterRead("p1", io)
    \/ NotifAfterWrite("p1")
    \/ TickMs

SpecNotif == InitNotif /\ [][NextNotif]_vars

(***************************************************************************)
(* statistics.ts: getGeneralStatistics, getDoctorStatistics and            *)
(* getPatientStatistics.  Each reads the appointments text from            *)
(* AsyncStorage directly, aggregates, and rethrows what its try catches.   *)
(***************************************************************************)
\* interface Appointment; `date` is a JavaScript value (the screen stores
\* whatever text was typed, a restored backup may hold anything).
StatAppt(id, patient, doctor, date, specialty, status) ==
    [id |-> id, patientId |-> patient, doctorId |-> doctor, date |-> date,
     specialty |-> specialty, status |-> status]

\* s.split('/')
Split(s) ==
    LET n == Len(s)
        Parts[i \in 0..n] ==
            IF i = 0 THEN <<"">>
            ELSE LET q == Parts[i - 1]
                     c == SubSeq(s, i, i)
                 IN  IF c = "/" THEN Append(q, "")
                     ELSE [q EXCEPT ![Len(q)] = @ \o c]
    IN  Parts[n]

\* `${x}` of the i-th element of a destructured array
Template(parts, i) == IF i <= Len(parts) THEN parts[i] ELSE "undefined"

\* const [day, month, year] = date.split('/'); `${month}/${year}`
MonthKey(date) ==
    LET parts == Split(date) IN Template(parts, 2) \o "/" \o Template(parts, 3)

\* if (h[k]) h[k]++; else h[k] = 1
EmptyHistogram == [k \in {} |-> 0]
Increment(h, k) ==
    [x \in DOMAIN h \cup {k} |->
        IF x = k THEN (IF k \in DOMAIN h THEN h[k] + 1 ELSE 1) ELSE h[x]]

\* The month loop: `.split` of a value that is no string throws a TypeError,
\* which the inner catch turns into a warning; every string is counted.
AppointmentsByMonth(list) ==
    LET n == Len(list)
        H[i \in 0..n] ==
            IF i = 0 THEN EmptyHistogram
            ELSE IF list[i].date.t = "str"
                    THEN Increment(H[i - 1], MonthKey(list[i].date.s))
                    ELSE H[i - 1]
    IN  H[n]

\* The specialty loop.
Specialties(list) ==
    LET n == Len(list)
        H[i \in 0..n] ==
            IF i = 0 THEN EmptyHistogram ELSE Increment(H[i - 1], list[i].specialty)
    IN  H[n]

\* list.filter(a => a.status === s).length
CountStatus(list, s) == Len(SelectSeq(list, LAMBDA a : a.status = s))

\* new Set(list.map(a => a[f])).size
Unique(list, f) == Cardinality({list[i][f] : i \in DOMAIN list})

\* A JavaScript number that is a quotient, kept as the fraction in lowest
\* terms.
RECURSIVE GCD(_, _)
GCD(a, b) == IF b = 0 THEN a ELSE GCD(b, a % b)
Fraction(a, b) ==
    LET g == GCD(a, b) IN [t |-> "num", n |-> a \div g, d |-> b \div g]

\* total > 0 ? (count / total) * 100 : 0
Percentage_Unguarded(count, total) ==
    IF total = 0 THEN NaN ELSE Fraction(count * 100, total)

Percentage(count, total) ==
    IF total > 0 THEN Fraction(count * 100, total) ELSE Fraction(0, 1)

StatusPercentages(list) ==
    [s \in {"confirmed", "pending", "cancelled"} |->
        Percentage(CountStatus(list, s), Len(list))]

GeneralStatistics(list) ==
    [totalAppointments     |-> Len(list),
     confirmedAppointments |-> CountStatus(list, "confirmed"),
     pendingAppointments   |-> CountStatus(list, "pending"),
     cancelledAppointments |-> CountStatus(list, "cancelled"),
     totalPatients         |-> Unique(list, "patientId"),
     totalDoctors          |-> Unique(list, "doctorId"),
     specialties           |-> Specialties(list),
     appointmentsByMonth   |-> AppointmentsByMonth(list),
     statusPercentages     |-> StatusPercentages(list)]

DoctorStatistics(all, doctorId) ==
    LET list == SelectSeq(all, LAMBDA a : a.doctorId = doctorId)
    IN  [totalAppointments     |-> Len(list),
         confirmedAppointments |-> CountStatus(list, "confirmed"),
         pendingAppointments   |-> CountStatus(list, "pending"),
         cancelledAppointments |-> CountStatus(list, "cancelled"),
         totalPatients         |-> Unique(list, "patientId"),
         statusPercentages     |-> StatusPercentages(list)]

PatientStatistics(all, patientId) ==
    LET list == SelectSeq(all, LAMBDA a : a.patientId = patientId)
    IN  [totalAppointments     |-> Len(list),
         confirmedAppointments |-> CountStatus(list, "confirmed"),
         pendingAppointments   |-> CountStatus(list, "pending"),
         cancelledAppointments |-> CountStatus(list, "cancelled"),
         totalDoctors          |-> Unique(list, "doctorId"),
         specialties           |-> Specialties(list),
         statusPercentages     |-> StatusPercentages(list)]

StatisticsOf(req, all) ==
    CASE req.kind = "getGeneralStatistics" -> GeneralStatistics(all)
      [] req.kind = "getDoctorStatistics"  -> DoctorStatistics(all, req.id)
      [] req.kind = "getPatientStatistics" -> PatientStatistics(all, req.id)

\* The appointments a statistics call aggregates: the whole collection, or
\* the doctor's or the patient's part of it.
FilteredOf(req, all) ==
    CASE req.kind = "getGeneralStatistics" -> all
      [] req.kind = "getDoctorStatistics"  ->
            SelectSeq(all, LAMBDA a : a.doctorId = req.id)
      [] req.kind = "getPatientStatistics" ->
            SelectSeq(all, LAMBDA a : a.patientId = req.id)

\* A statistics call up to `await AsyncStorage.getItem('@MedicalApp:appointments')`.
StatsCall(p, req) ==
    /\ pc[p] = "idle"
    /\ ops < MaxOps
    /\ ops' = ops + 1
    /\ pc' = [pc EXCEPT ![p] = "stats.read"]
    /\ loc' = [loc EXCEPT ![p] = [op |-> "stats", req |-> req,
                                  stored |-> disk[K_APPOINTMENTS]]]
    /\ UNCHANGED <<disk, cache, now, histVars, done, run, race, authVars, uiVars>>

\* The bookkeeping of a completed statistics call.
StatsDone(req, all, ret, failed) ==
    done' = [op |-> req.kind, req |-> req, list |-> all, ret |-> ret,
             failed |-> failed, threw |-> failed]

\* After the read of the appointments: a rejected read is rethrown by the
\* catch; getGeneralStatistics goes on to read the registered users, the
\* two others aggregate and return.
StatsAfterRead(p, ok) ==
    /\ pc[p] = "stats.read"
    /\ LET req == loc[p].req
           all == ParseOrEmpty(loc[p].stored).a
       IN  IF ok /\ req.kind = "getGeneralStatistics"
             THEN /\ pc' = [pc EXCEPT ![p] = "stats.users"]
                  /\ loc' = [loc EXCEPT ![p] = [op |-> "stats", req |-> req,
                                                all |-> all]]
                  /\ UNCHANGED done
             ELSE /\ StatsDone(req, all,
                               IF ok THEN StatisticsOf(req, all) ELSE Thrown, ~ok)
                  /\ pc' = [pc EXCEPT ![p] = "idle"]
                  /\ loc' = [loc EXCEPT ![p] = Idle]
    /\ UNCHANGED <<disk, cache, now, histVars, ops, run, race, authVars, uiVars>>

\* getGeneralStatistics after the read of the registered users (whose value
\* it does not use).
StatsAfterUsers(p, ok) ==
    /\ pc[p] = "stats.users"
    /\ StatsDone(loc[p].req, loc[p].all,
                 IF ok THEN StatisticsOf(loc[p].req, loc[p].all) ELSE Thrown, ~ok)
    /\ pc' = [pc EXCEPT ![p] = "idle"]
    /\ loc' = [loc EXCEPT ![p] = Idle]
    /\ UNCHANGED <<disk, cache, now, histVars, ops, run, race, authVars, uiVars>>

StatRequests ==
    {[kind |-> "getGeneralStatistics"]}
        \cup {[kind |-> "getDoctorStatistics", id |-> d] : d \in {"d1", "d2"}}
        \cup {[kind |-> "getPatientStatistics", id |-> u] : u \in {"u1", "u2"}}

\* The appointments a stored collection is drawn from.  The date is the
\* text typed into the booking form: well formed, or not.
MaxAppts == 3
StoredAppointments ==
    {StatAppt("a1", "u1", "d1", Str("21/08/2025"), "Cardiologia", "confirmed"),
     StatAppt("a2", "u2", "d1", Str("05/08/2025"), "Cardiologia", "pending"),
     StatAppt("a3", "u1", "d2", Str("2025-08-21"), "Pediatria", "cancelled"),
     StatAppt("a4", "u2", "d2", Str("21/08"), "Pediatria", "confirmed"),
     StatAppt("a5", "u1", "d1", Null, "Cardiologia", "confirmed"),
     StatAppt("a6", "u1", "d1", Str("10/09/2025"), "Cardiologia", "confirmed")}
StoredAppointmentLists ==
    UNION {[1..n -> StoredAppointments] : n \in 0..MaxAppts}

InitStats ==
    /\ disk \in {[k \in STORAGE_KEYS |-> IF k = K_APPOINTMENTS THEN d ELSE Absent] :
                    d \in {Absent} \cup {Stringify(Arr(l)) : l \in StoredAppointmentLists}}
    /\ cache = EmptyCache
    /\ now = MsPerMinute
    /\ pc = [p \in Procs |-> "idle"]
    /\ loc = [p \in Procs |-> Idle]
    /\ lastOp = NoOp
    /\ lastSet = [k \in STORAGE_KEYS |-> NoSet]
    /\ ops = 0
    /\ done = NoneDone
    /\ run = NoRun
    /\ race = NoRace
    /\ registeredUsers = <<>>
    /\ user = Null
    /\ loading = FALSE
    /\ shown = <<>>
    /\ selected = NoSelection

NextStats ==
    \/ \E req \in StatRequests : StatsCall("p1", req)
    \/ \E ok \in BOOLEAN : StatsAfterRead("p1", ok)
    \/ \E ok \in BOOLEAN : StatsAfterUsers("p1", ok)

SpecStats == InitStats /\ [][NextStats]_vars

(***************************************************************************)
(* storageService.restoreFromBackup on any text, and updateAppSettings.    *)
(***************************************************************************)
\* restoreFromBackup(backupString): JSON.parse throws on a text that is no
\* JSON, `backup.data` throws on null, and the catch rethrows; without a
\* truthy `data` nothing is written; otherwise the four setItem calls run.
RestoreFromBackup(p, doc) ==
    LET rec == [op |-> "restore", views |-> RepoViews, doc |-> doc,
                diskAt |-> disk, cacheAt |-> cache, threw |-> FALSE]
        throws == ~Parsable(doc) \/ Parse(doc) = Null
    IN  IF throws \/ Falsy(Field(Parse(doc), "data"))
          THEN /\ pc[p] = "idle"
               /\ ops < MaxOps
               /\ ops' = ops + 1
               /\ OtherDone([rec EXCEPT !.threw = throws])
               /\ UNCHANGED <<disk, cache, now, pc, loc, histVars, race,
                              authVars, uiVars>>
          ELSE RestoreCall(p, doc, rec)

\* The bookkeeping of a completed updateAppSettings.
SettingsDone(l) ==
    OtherDone([op |-> "updateAppSettings", patch |-> l.patch, before |-> l.before])

\* The patch stored in place of the merge.
SettingsWrite_Replace(p, current, patch, before, c) ==
    /\ disk' = [disk EXCEPT ![K_SETTINGS] = Stringify(Obj(patch))]
    /\ cache' = c
    /\ pc' = [pc EXCEPT ![p] = "settings.set"]
    /\ loc' = [loc EXCEPT ![p] = [op |-> "updateAppSettings", patch |-> patch,
                                  val |-> Obj(patch), before |-> before]]

\* updateAppSettings once getAppSettings has returned `current`: merge, and
\* setItem up to its backend write.
SettingsWrite(p, current, patch, before, c) ==
    /\ disk' = [disk EXCEPT ![K_SETTINGS] = Stringify(Obj(Merge(current.o, patch)))]
    /\ cache' = c
    /\ pc' = [pc EXCEPT ![p] = "settings.set"]
    /\ loc' = [loc EXCEPT ![p] = [op |-> "updateAppSettings", patch |-> patch,
                                  val |-> Obj(Merge(current.o, patch)),
                                  before |-> before]]

\* updateAppSettings(patch): getAppSettings is served from the cache, or
\* suspends at the backend read.
UpdateAppSettingsCall(p, patch) ==
    /\ pc[p] = "idle"
    /\ ops < MaxOps
    /\ ops' = ops + 1
    /\ IF CacheValid(cache, K_SETTINGS, now)
          THEN SettingsWrite(p, cache[K_SETTINGS].data, patch, disk[K_SETTINGS], cache)
          ELSE /\ cache' = GetItemEvict(cache, K_SETTINGS, now)
               /\ pc' = [pc EXCEPT ![p] = "settings.get"]
               /\ loc' = [loc EXCEPT ![p] = [op |-> "updateAppSettings",
                                             patch |-> patch,
                                             stored |-> disk[K_SETTINGS],
                                             before |-> disk[K_SETTINGS]]]
               /\ disk' = disk
    /\ UNCHANGED <<now, histVars, done, run, race, authVars, uiVars>>

\* getItem(APP_SETTINGS, defaults) after its backend read
UpdateAppSettingsAfterGet(p) ==
    /\ pc[p] = "settings.get"
    /\ LET l == loc[p] IN
          SettingsWrite(p, GetItemResult(l.stored, DefaultSettings), l.patch, l.before,
                        GetItemFill(cache, K_SETTINGS, l.stored, FreshRef, now))
    /\ UNCHANGED <<now, histVars, ghostVars, authVars, uiVars>>

\* setItem(APP_SETTINGS, updatedSettings) after its backend write: cache.set
UpdateAppSettingsAfterSet(p) ==
    /\ pc[p] = "settings.set"
    /\ cache' = CacheSet(cache, K_SETTINGS, CacheItem(loc[p].val, FreshRef, now, NoTTL))
    /\ SettingsDone(loc[p])
    /\ pc' = [pc EXCEPT ![p] = "idle"]
    /\ loc' = [loc EXCEPT ![p] = Idle]
    /\ UNCHANGED <<disk, now, histVars, ops, race, authVars, uiVars>>

\* SettingsScreen.updateSetting(key, value): the patch is { [key]: value }
SettingsPatches ==
    {[theme |-> "dark"], [notifications |-> "false"], [autoBackup |-> "false"]}

\* The texts handed to restoreFromBackup: a whole backup, data sections
\* with sub-fields missing or null, documents without a data section, and
\* texts JSON.parse rejects or that are no object.
RestoreDocs ==
    LET appts == Arr(<<Appt("a2", "u2", "d1", "confirmed")>>)
        dark  == Obj([theme |-> "dark"])
    IN  {BackupDoc(<<appts, EmptyList, Arr(<<Ana>>), dark>>, 0),
         [json |-> [timestamp |-> 0, data |-> [appointments |-> appts]]],
         [json |-> [timestamp |-> 0, data |-> [settings |-> dark]]],
         [json |-> [timestamp |-> 0, data |-> [notifications |-> Null,
                                               registeredUsers |-> Arr(<<Ana>>)]]],
         [json |-> [timestamp |-> 0]],
         [json |-> [timestamp |-> 0, data |-> Null]],
         [json |-> Null],
         RawString("not json")}

\* The backend holds a session and a collection under every covered key
\* but, possibly, the settings.
InitConfig ==
    /\ \E s \in {Absent, Stringify(Obj([theme |-> "light", language |-> "pt-BR"]))} :
          disk = [k \in STORAGE_KEYS |->
                    CASE k = K_USER -> Stringify(Obj(Without(Ana, "password")))
                      [] k = K_TOKEN -> RawString("patient-token-" \o Ana.id)
                      [] k = K_APPOINTMENTS ->
                            Stringify(Arr(<<Appt("a1", "u1", "d1", "pending")>>))
                      [] k = K_NOTIFICATIONS ->
                            Stringify(Arr(<<Notification(0, "u1", "general", "a1")>>))
                      [] k = K_REGISTERED -> Stringify(Arr(<<Ana>>))
                      [] k = K_SETTINGS -> s
                      [] OTHER -> Absent]
    /\ cache = EmptyCache
    /\ now = MsPerMinute
    /\ pc = [p \in Procs |-> "idle"]
    /\ loc = [p \in Procs |-> Idle]
    /\ lastOp = NoOp
    /\ lastSet = [k \in STORAGE_KEYS |-> NoSet]
    /\ ops = 0
    /\ done = NoneDone
    /\ run = NoRun
    /\ race = NoRace
    /\ registeredUsers = <<>>
    /\ user = Null
    /\ loading = FALSE
    /\ shown = <<>>
    /\ selected = NoSelection

NextConfig ==
    \/ \E doc \in RestoreDocs : RestoreFromBackup("p1", doc)
    \/ RestoreStep("p1")
    \/ \E patch \in SettingsPatches : UpdateAppSettingsCall("p1", patch)
    \/ UpdateAppSettingsAfterGet("p1")
    \/ UpdateAppSettingsAfterSet("p1")
    \/ \E v \in {Str("a")} : SetItemCall("p1", K_USER, v, NoTTL)
    \/ SetItemResume("p1")

SpecConfig == InitConfig /\ [][NextConfig]_vars

(***************************************************************************)
(* restoreFromBackup when the backend write of one of its four setItem     *)
(* calls rejects: that setItem skips its cache.set and rethrows, and the   *)
(* catch of restoreFromBackup rethrows; the setItem calls before it have   *)
(* completed.                                                              *)
(***************************************************************************)
\* The write of the first setItem rejects.
RestoreCallReject(p, doc) ==
    /\ pc[p] = "idle"
    /\ ops < MaxOps
    /\ ops' = ops + 1
    /\ Parsable(doc)
    /\ Parse(doc) # Null
    /\ ~Falsy(Field(Parse(doc), "data"))
    /\ pc' = [pc EXCEPT ![p] = "restore.rejected"]
    /\ loc' = [loc EXCEPT ![p] =
                  [op |-> "restore", i |-> 1,
                   rec |-> [op |-> "restore", views |-> RepoViews, doc |-> doc,
                            diskAt |-> disk, cacheAt |-> cache, threw |-> TRUE]]]
    /\ UNCHANGED <<disk, cache, now, histVars, done, run, race, authVars, uiVars>>

\* The i-th setItem resumes (cache.set); the write of the next one rejects.
RestoreStepReject(p) ==
    /\ pc[p] = "restore.set"
    /\ loc[p].i < 4
    /\ "diskAt" \in DOMAIN loc[p].rec
    /\ LET l == loc[p] IN
        /\ cache' = CacheSet(cache, BackupKeys[l.i],
                             CacheItem(l.vals[l.i], l.ref, now, NoTTL))
        /\ pc' = [pc EXCEPT ![p] = "restore.rejected"]
        /\ loc' = [loc EXCEPT ![p] = [op |-> "restore", i |-> l.i + 1,
                                      rec |-> [l.rec EXCEPT !.threw = TRUE]]]
    /\ UNCHANGED <<disk, now, histVars, ghostVars, authVars, uiVars>>

\* catch (error) { console.error(...); throw error; }
RestoreRejected(p) ==
    /\ pc[p] = "restore.rejected"
    /\ OtherDone(loc[p].rec)
    /\ pc' = [pc EXCEPT ![p] = "idle"]
    /\ loc' = [loc EXCEPT ![p] = Idle]
    /\ UNCHANGED <<disk, cache, now, histVars, ops, race, authVars, uiVars>>

NextRestoreFail ==
    \/ \E doc \in RestoreDocs : RestoreFromBackup("p1", doc)
    \/ RestoreStep("p1")
    \/ \E doc \in RestoreDocs : RestoreCallReject("p1", doc)
    \/ RestoreStepReject("p1")
    \/ RestoreRejected("p1")

SpecRestoreFail == InitConfig /\ [][NextRestoreFail]_vars

(***************************************************************************)
(* Two callers on one JavaScript thread: a handler started while another   *)
(* is suspended at an await (a second tap, a focus effect, a screen still  *)
(* mounted underneath).  Steps of the two interleave at the awaits only.   *)
(***************************************************************************)
RaceRequests ==
    {[kind |-> "get", key |-> K_APPOINTMENTS],
     [kind |-> "add", key |-> K_APPOINTMENTS,
      item |-> Appt("a2", "u2", "d1", "pending")],
     [kind |-> "update", key |-> K_APPOINTMENTS, id |-> "a1",
      patch |-> [status |-> "confirmed"]],
     [kind |-> "delete", key |-> K_APPOINTMENTS, id |-> "a1"]}

\* The operations started in a run of the two callers.
MaxRaceOps == 3
CanStart == ops < MaxRaceOps

InitRace == InitApp

NextRace ==
    \E p \in Procs :
        \/ CanStart /\ \E req \in RaceRequests : RepoCallHit(p, req)
        \/ CanStart /\ \E req \in RaceRequests : RepoCallMiss(p, req)
        \/ RepoGetResume(p)
        \/ RepoSetResume(p)
        \/ CanStart /\ \E u \in Patients, d \in Doctors : BookCall(p, u, d)
        \/ BookAfterRead(p)
        \/ BookAfterWrite(p)
        \/ NotifyAfterRead(p)
        \/ NotifyAfterWrite(p)
        \/ CanStart /\ DoctorLoadCall(p)
        \/ \E d \in Doctors : DoctorLoadResume(p, d)
        \/ \E i \in 1..MaxOps + 1 : OpenModal(i, "confirm")
        \/ CanStart /\ DoctorActCall(p, Undefined)
        \/ DoctorActAfterRead(p)
        \/ DoctorActAfterWrite(p)
        \/ TickMs

SpecRace == InitRace /\ [][NextRace]_vars

(***************************************************************************)
(* The doctor's dashboard and the booking form over a backend that holds   *)
(* two pending bookings and their notifications.  A handler may be started *)
(* while an earlier one is suspended at an await, or while the reload the  *)
(* earlier one started has not refreshed the list yet.                     *)
(***************************************************************************)
\* The handlers started in one run.
MaxDoctorOps == 2

BookedA1 == Appt("a1", "u1", "d1", "pending")
BookedA2 == Appt("a2", "u2", "d1", "pending")

InitDoctor ==
    /\ disk = [k \in STORAGE_KEYS |->
                 CASE k = K_APPOINTMENTS -> Stringify(Arr(<<BookedA1, BookedA2>>))
                   [] k = K_NOTIFICATIONS ->
                         Stringify(Arr(<<[Notification(0, "d1", "general", "a1")
                                             EXCEPT !.id = "a1"],
                                         [Notification(0, "d1", "general", "a2")
                                             EXCEPT !.id = "a2"]>>))
                   [] OTHER -> Absent]
    /\ cache = EmptyCache
    /\ now = MsPerMinute
    /\ pc = [p \in Procs |-> "idle"]
    /\ loc = [p \in Procs |-> Idle]
    /\ lastOp = NoOp
    /\ lastSet = [k \in STORAGE_KEYS |-> NoSet]
    /\ ops = 0
    /\ done = NoneDone
    /\ run = NoRun
    /\ race = NoRace
    /\ registeredUsers = <<>>
    /\ user = Null
    /\ loading = FALSE
    /\ shown = <<BookedA1, BookedA2>>
    /\ selected = NoSelection

NextDoctor ==
    \E p \in Procs :
        \/ ops < MaxDoctorOps /\ \E u \in Patients, d \in Doctors : BookCall(p, u, d)
        \/ BookAfterRead(p)
        \/ BookAfterWrite(p)
        \/ NotifyAfterRead(p)
        \/ NotifyAfterWrite(p)
        \/ ops < MaxDoctorOps /\ DoctorLoadCall(p)
        \/ \E d \in Doctors : DoctorLoadResume(p, d)
        \/ \E i \in 1..MaxDoctorOps + 2, a \in {"confirm", "cancel"} : OpenModal(i, a)
        \/ ops < MaxDoctorOps /\ \E r \in Reasons : DoctorActCall(p, r)
        \/ DoctorActAfterRead(p)
        \/ DoctorActAfterWrite(p)
        \/ TickMs

SpecDoctor == InitDoctor /\ [][NextDoctor]_vars

(***************************************************************************)
(* Properties of the generic API (checked under SpecStore).                *)
(***************************************************************************)
GetDone == lastOp.op = "getItem"

\* C1 as stated: after setItem(K, V, T) with T > 0 and no other write to K,
\* getItem(K, D) returns V while fewer than T minutes have elapsed and the
\* caller's default (null when none was given) once T minutes have elapsed.
C1_DefaultAfterExpiry ==
    (GetDone /\ lastSet[lastOp.key].set /\ lastSet[lastOp.key].ttl > 0) =>
        lastOp.ret = IF lastOp.late
                        THEN (IF lastOp.arg # Undefined THEN lastOp.arg ELSE Null)
                        ELSE lastSet[lastOp.key].val

\* C1 as amended: after setItem(K, V, T) with T > 0 and no other write to K,
\* getItem(K, D) returns V while fewer than T minutes have elapsed; once T
\* minutes have elapsed only the cache entry has expired, and getItem
\* returns what the backend still holds for K, the JSON round trip of V.
C1_BackendAfterExpiry ==
    (GetDone /\ lastSet[lastOp.key].set /\ lastSet[lastOp.key].ttl > 0) =>
        lastOp.ret = IF lastOp.late
                        THEN Parse(Stringify(lastSet[lastOp.key].val))
                        ELSE lastSet[lastOp.key].val

C1_Witness ==
    /\ GetDone
    /\ lastSet[lastOp.key].set
    /\ lastSet[lastOp.key].ttl > 0
    /\ lastOp.late
    /\ ~lastOp.hit
    /\ lastOp.arg = Str("d")
    /\ lastOp.ret = Str("a")

\* C3: setItem(K, V) followed immediately by getItem(K) returns V, and the
\* getItem is served from the cache without a backend read.
C3_SetThenGetFromCache ==
    (GetDone /\ lastOp.after = "setItem" /\ ~lastOp.late
        /\ lastSet[lastOp.key].set) =>
        /\ lastOp.hit
        /\ lastOp.ret = lastSet[lastOp.key].val

C3_Witness ==
    /\ GetDone
    /\ lastOp.after = "setItem"
    /\ lastSet[lastOp.key].set
    /\ lastSet[lastOp.key].ttl = NoTTL
    /\ lastOp.hit
    /\ lastOp.ret = NaN
    /\ disk[lastOp.key] = Stringify(Null)

\* C4: removeItem(K) followed by getItem(K, D) returns D, whatever the
\* supplied default D is (falsy values included).
C4_RemoveThenGetDefault ==
    (GetDone /\ lastOp.after = "removeItem" /\ lastOp.arg # Undefined) =>
        lastOp.ret = lastOp.arg

(***************************************************************************)
(* Properties of the repositories and screens (checked under SpecApp).     *)
(***************************************************************************)
Range(q) == {q[i] : i \in DOMAIN q}
Count(x, q) == Cardinality({i \in DOMAIN q : q[i] = x})
SameBag(q1, q2) ==
    \A x \in Range(q1) \cup Range(q2) : Count(x, q1) = Count(x, q2)

FrameOfUpdate(before, after, id, patch) ==
    /\ Len(after) = Len(before)
    /\ \A i \in DOMAIN before :
          IF before[i].id = id
              THEN /\ DOMAIN after[i] = DOMAIN before[i] \cup DOMAIN patch
                   /\ \A f \in DOMAIN patch : after[i][f] = patch[f]
                   /\ \A f \in DOMAIN before[i] \ DOMAIN patch :
                         after[i][f] = before[i][f]
              ELSE after[i] = before[i]
    /\ (\A i \in DOMAIN before : before[i].id # id) => after = before

\* The doctor's handler writes the status of its action and, for a given
\* reason, the cancelReason.
PatchOfAction(action, reason) ==
    IF reason = Undefined
        THEN [status |-> IF action = "confirm" THEN "confirmed" ELSE "cancelled"]
        ELSE [status |-> IF action = "confirm" THEN "confirmed" ELSE "cancelled",
              cancelReason |-> reason.s]

C8_UpdateFrame ==
    /\ (pc["p1"] = "idle" /\ done.op = "update") =>
          FrameOfUpdate(done.before.a, View(K_APPOINTMENTS, EmptyList).a,
                        done.req.id, done.req.patch)
    /\ (pc["p1"] \in {"idle", "load.read"} /\ done.op = "act") =>
          FrameOfUpdate(done.before.a, ParseOrEmpty(disk[K_APPOINTMENTS]).a,
                        done.sel.id, PatchOfAction(done.action, done.reason))

C8_Witness ==
    /\ pc["p1"] = "idle"
    /\ done.op = "update"
    /\ Len(done.before.a) = 2
    /\ \E i \in DOMAIN done.before.a : done.before.a[i].id = done.req.id
    /\ \E i \in DOMAIN done.before.a : done.before.a[i].id # done.req.id
    /\ done.req.patch = [status |-> "cancelled", cancelReason |-> "r"]

C8_WitnessAct ==
    /\ pc["p1"] = "idle"
    /\ done.op = "act"
    /\ done.wrote
    /\ Len(done.before.a) = 2
    /\ done.reason = Str("r")

\* C5: restoreFromBackup(createBackup()) with no other writer in between
\* leaves what getAppointments, getNotifications, getRegisteredUsers and
\* getAppSettings return as it was before the backup, also for a key that
\* was absent from the backend.
C5_BackupRestoreRoundTrip ==
    (pc["p1"] = "idle" /\ done.op = "restore") => RepoViews = done.views

\* C6: the document returned by createBackup holds, for each covered key
\* that is stored, the value the backend held when createBackup was called.
BackupSections(doc) ==
    <<Parse(doc).data.appointments, Parse(doc).data.notifications,
      Parse(doc).data.registeredUsers, Parse(doc).data.settings>>

C6_BackupHoldsBackend ==
    (done.op = "backup") =>
        \A i \in 1..4 :
            done.diskAt[BackupKeys[i]] # Absent =>
                BackupSections(done.ret)[i] = Parse(done.diskAt[BackupKeys[i]])


(***************************************************************************)
(* Interleaved read-modify-write (checked under SpecRace).                 *)
(***************************************************************************)
\* The id of the element a change adds, updates or deletes.
TouchedId(by) == IF by.kind = "add" THEN by.item.id ELSE by.id

AllIdle == \A p \in Procs : pc[p] = "idle"

\* The elements other callers' writes had put into the collection between
\* the last writer's read and its write, its own element apart.
LandedBetween ==
    {x \in Range(race.lost.a) \ Range(ToJSON(race.snapshot).a) :
        x.id # TouchedId(race.by)}

\* The elements other callers' writes had taken out of it (deleted, or
\* replaced by an updated copy) in that interval.
RemovedBetween ==
    {y \in Range(ToJSON(race.snapshot).a) \ Range(race.lost.a) :
        y.id # TouchedId(race.by)}

\* C2: two mutating operations on the same collection can interleave at
\* their awaits so that the stored collection has the change of only one:
\* whenever a mutator writes the collection it computed from a read that
\* another mutator's write has followed, the stored collection is the
\* writer's alone: what the other one put in is gone and what it took out
\* is back.
C2_LastWriterOnly ==
    race # NoRace =>
        LET final == Range(ParseOrEmpty(disk[race.key]).a) IN
            /\ \A x \in LandedBetween : x \notin final
            /\ \A y \in RemovedBetween : y \in final

\* Both operations have completed, and the booking that one of them stored
\* is not in the stored collection: the other one's write replaced it.
C2_Witness ==
    /\ AllIdle
    /\ race # NoRace
    /\ race.key = K_APPOINTMENTS
    /\ LandedBetween # {}
    /\ \E x \in LandedBetween :
           /\ x.status = "pending"
           /\ \A y \in Range(ParseOrEmpty(disk[K_APPOINTMENTS]).a) : y.id # x.id

\* The same for two notificationService mutators.
C2_WitnessNotifications ==
    /\ AllIdle
    /\ race # NoRace
    /\ race.key = K_NOTIFICATIONS
    /\ LandedBetween # {}

\* The same for two storageService mutators.
C2_WitnessRepository ==
    /\ AllIdle
    /\ race # NoRace
    /\ race.key = K_APPOINTMENTS
    /\ "key" \in DOMAIN race.by
    /\ LandedBetween # {}

(***************************************************************************)
(* Identifiers of the booking flow (checked under SpecApp).                *)
(***************************************************************************)
\* The identifiers the booking flow can produce: readings of the clock.
BookedIds == {IdOf(t) : t \in MsPerMinute..(MsPerMinute + MaxMs + 1)}

\* C9: after any sequence of bookings, two of them at the same clock reading
\* included, no two appointments created by the booking flow share an id.
C9_BookedIdsUnique ==
    LET list == ParseOrEmpty(disk[K_APPOINTMENTS]).a IN
        \A i, j \in DOMAIN list :
            (i # j /\ list[i].id \in BookedIds) => list[i].id # list[j].id

(***************************************************************************)
(* Start-up of the AuthProvider (checked under SpecAuth).                  *)
(***************************************************************************)
\* C10: the AuthProvider does not end its loading state, and no signIn or
\* register call runs, until authService.loadRegisteredUsers has completed.
C10_ReadyAfterRehydration ==
    /\ (pc["p1"] # "init" /\ ~loading) => UsersLoaded
    /\ done.op \in {"signIn", "register"} => done.loaded

(***************************************************************************)
(* Failures of the generic API (checked under SpecFail).                   *)
(***************************************************************************)
\* C11: when serialization or the backend write fails inside setItem, the
\* call throws to its caller and the cache entry of the key is exactly what
\* it was before the call.
C11_FailedSetKeepsCache ==
    (lastOp.op = "setItem.failed" /\ pc["p1"] = "idle") =>
        /\ lastOp.ret = Thrown
        /\ EntryOf(cache, lastOp.key) = lastOp.entry

\* A setItem whose backend write was rejected has returned, and the key has
\* the cache entry an earlier setItem gave it.
C11_Witness ==
    /\ lastOp.op = "setItem.failed"
    /\ pc["p1"] = "idle"
    /\ Serializable(lastOp.arg)
    /\ lastOp.entry # NoEntry
    /\ lastOp.entry.data # lastOp.arg
    /\ EntryOf(cache, lastOp.key) = lastOp.entry

\* C12: getItem(K, D) never throws: on a backend read failure or a
\* deserialization failure it returns D when a default was supplied and null
\* otherwise, and the failed read creates no cache entry for K.
C12_FailedGetReturnsDefault ==
    (lastOp.op = "getItem.failed" /\ pc["p1"] = "idle") =>
        /\ lastOp.ret # Thrown
        /\ lastOp.ret = IF lastOp.arg # Undefined THEN lastOp.arg ELSE Null
        /\ lastOp.key \notin DOMAIN cache

(***************************************************************************)
(* notificationService (checked under SpecNotif).                          *)
(***************************************************************************)
Mutators == {"createNotification", "markAsRead", "markAllAsRead",
             "deleteNotification"}

\* C13: every mutating operation (setItem, removeItem, clearAll, the
\* repository writes, the notificationService mutators, backup and restore)
\* throws to its caller when the backend access it performs fails.
C13_FailedMutationThrows ==
    /\ lastOp.op \in {"setItem.failed", "removeItem.failed", "clearAll.failed"}
          => lastOp.ret = Thrown
    /\ (done.op \in Mutators /\ done.failed) => done.threw

\* C14: getNotifications(u) returns exactly the stored notifications of u,
\* ordered by createdAt descending, those of identical createdAt in their
\* insertion order: the stored notification at index i comes out at the
\* position given by the number of notifications of u that are newer, or
\* as old and stored before it.
C14_OwnNotificationsNewestFirst ==
    (done.op = "getNotifications" /\ ~done.failed) =>
        LET r == done.ret
            l == done.list.a
            own == {i \in DOMAIN l : l[i].userId = done.req.userId}
            Time(i) == GetTime(l[i].createdAt)
            Rank(i) == 1 + Cardinality({j \in own :
                              \/ Time(j) > Time(i)
                              \/ Time(j) = Time(i) /\ j < i})
        IN  /\ Len(r) = Cardinality(own)
            /\ \A i \in own : r[Rank(i)] = l[i]

\* getNotifications returned two notifications of the user that have the
\* same createdAt, and an older one stored before them came out last.
C14_Witness ==
    /\ done.op = "getNotifications"
    /\ ~done.failed
    /\ Len(done.ret) = 3
    /\ done.ret[1].createdAt = done.ret[2].createdAt
    /\ done.ret[1] # done.ret[2]
    /\ done.ret[3] = done.list.a[1]
    /\ done.ret[3].createdAt # done.ret[1].createdAt

\* C15: getUnreadCount(u) is the number of unread notifications that
\* getNotifications(u) returns, and it is 0 after a markAllAsRead(u) that
\* has returned, no notification having been created in between.
C15_UnreadCount ==
    done.op = "getUnreadCount" =>
        /\ ~done.failed =>
              done.ret = Cardinality({i \in DOMAIN done.list.a :
                            done.list.a[i].userId = done.req.userId
                                /\ ~done.list.a[i].read})
        /\ done.after = done.req.userId => done.ret = 0

(***************************************************************************)
(* Statistics.                                                             *)
(***************************************************************************)
Digits == {"0", "1", "2", "3", "4", "5", "6", "7", "8", "9"}

\* A date of the form DD/MM/YYYY.
WellFormedDate(date) ==
    /\ date.t = "str"
    /\ Len(date.s) = 10
    /\ \A i \in 1..10 :
          IF i \in {3, 6} THEN SubSeq(date.s, i, i) = "/"
                          ELSE SubSeq(date.s, i, i) \in Digits

RECURSIVE SumOver(_, _)
SumOver(h, keys) ==
    IF keys = {} THEN 0
    ELSE LET k == CHOOSE x \in keys : TRUE IN h[k] + SumOver(h, keys \ {k})

\* C16: in the month histogram of the general statistics an appointment
\* whose date is not of the form DD/MM/YYYY is skipped: the keys are the
\* MM/YYYY of the well-formed dates only, and the counts add up to the
\* number of appointments with a well-formed date.
C16_MalformedDatesSkipped ==
    (done.op = "getGeneralStatistics" /\ ~done.failed) =>
        LET h    == done.ret.appointmentsByMonth
            good == {i \in DOMAIN done.list : WellFormedDate(done.list[i].date)}
        IN  /\ DOMAIN h = {SubSeq(done.list[i].date.s, 4, 10) : i \in good}
            /\ SumOver(h, DOMAIN h) = Cardinality(good)

\* C17: on an empty (filtered) collection every count and every status
\* percentage is 0; otherwise each percentage is count / total * 100, and
\* a collection of confirmed appointments only yields 100, 0 and 0.
StatusesOf == {"confirmed", "pending", "cancelled"}
C17_CountsAndPercentages ==
    (done.op \in {"getGeneralStatistics", "getDoctorStatistics", "getPatientStatistics"}
        /\ ~done.failed) =>
        LET r     == done.ret
            list  == FilteredOf(done.req, done.list)
            total == Len(list)
            N(s)  == Cardinality({i \in DOMAIN list : list[i].status = s})
            pct   == r.statusPercentages
        IN  /\ r.totalAppointments = total
            /\ r.confirmedAppointments = N("confirmed")
            /\ r.pendingAppointments = N("pending")
            /\ r.cancelledAppointments = N("cancelled")
            /\ \A s \in StatusesOf : pct[s].t = "num"
            /\ total = 0 =>
                  /\ \A s \in StatusesOf : pct[s].n = 0 /\ pct[s].d = 1
                  /\ \A f \in DOMAIN r \cap {"totalPatients", "totalDoctors"} : r[f] = 0
                  /\ \A f \in DOMAIN r \cap {"specialties", "appointmentsByMonth"} :
                        DOMAIN r[f] = {}
            /\ total > 0 =>
                  \A s \in StatusesOf : pct[s].n * total = N(s) * 100 * pct[s].d
            /\ (total > 0 /\ N("confirmed") = total) =>
                  /\ pct["confirmed"].n = 100 /\ pct["confirmed"].d = 1
                  /\ pct["pending"].n = 0
                  /\ pct["cancelled"].n = 0

\* An empty doctor's part of a non-empty collection, and a collection of
\* confirmed appointments only.
C17_Witness ==
    /\ done.op = "getDoctorStatistics"
    /\ ~done.failed
    /\ Len(done.list) = 3
    /\ done.ret.totalAppointments = 0
    /\ done.ret.statusPercentages["confirmed"].n = 0

C17_WitnessAllConfirmed ==
    /\ done.op = "getGeneralStatistics"
    /\ ~done.failed
    /\ done.ret.totalAppointments = 3
    /\ done.ret.statusPercentages["confirmed"].n = 100

(***************************************************************************)
(* Registered e-mails (checked under SpecAuth).                            *)
(***************************************************************************)
ReservedEmails == {mockAdmin.email} \cup {mockDoctors[i].email : i \in DOMAIN mockDoctors}

\* The users of a list have pairwise different e-mails, none of them the
\* admin's or a mock doctor's.
EmailsUnique(users) ==
    /\ \A i, j \in DOMAIN users : users[i].email = users[j].email => i = j
    /\ \A i \in DOMAIN users : users[i].email \notin ReservedEmails

\* The e-mails of each list are unique, whatever the interleaving.
EmailsUniqueInLists ==
    /\ EmailsUnique(registeredUsers)
    /\ EmailsUnique(ParseOrEmpty(disk[K_REGISTERED]).a)

\* A register call that threw changed neither list.
ThrownRegisterChangesNothing ==
    [][(ops' # ops /\ pc' = pc /\ done'.op = "register" /\ ~done'.ok) =>
            /\ registeredUsers' = registeredUsers
            /\ disk'[K_REGISTERED] = disk[K_REGISTERED]]_vars

\* A register call with the e-mail of the admin, of a mock doctor or of a
\* registered user (in memory or persisted) threw.
TakenEmailThrows ==
    (done.op = "register" /\
        (\/ done.email \in ReservedEmails
         \/ \E i \in DOMAIN done.stored : done.stored[i].email = done.email)) =>
        ~done.ok

\* C18: after any interleaving of register calls with loadRegisteredUsers,
\* no two registered users share an e-mail and none has the e-mail of the
\* admin or of a mock doctor; a register call with an e-mail already in use
\* throws and leaves the in-memory and the persisted list unchanged.
C18_RegisteredEmailsUnique ==
    /\ [](EmailsUniqueInLists /\ TakenEmailThrows)
    /\ ThrownRegisterChangesNothing

(***************************************************************************)
(* Restore and settings (checked under SpecConfig).                        *)
(***************************************************************************)
CoveredKeys   == {BackupKeys[i] : i \in 1..4}
SectionNames  == <<"appointments", "notifications", "registeredUsers", "settings">>

\* The parsed document has a data section.
HasData(doc) ==
    /\ Parsable(doc)
    /\ "data" \in DOMAIN Parse(doc)
    /\ Parse(doc).data # Null

\* What a restoreFromBackup that has just returned has done, against the
\* backend and the cache as they were when it was called.
RestoreEffect ==
        /\ \A k \in STORAGE_KEYS \ CoveredKeys :
              /\ disk[k] = done.diskAt[k]
              /\ EntryOf(cache, k) = EntryOf(done.cacheAt, k)
        /\ HasData(done.doc) =>
              \A i \in 1..4 :
                  LET data == Parse(done.doc).data
                      f    == SectionNames[i]
                  IN  /\ f \notin DOMAIN data =>
                            /\ disk[BackupKeys[i]] = Stringify(BackupDefaults[i])
                            /\ cache[BackupKeys[i]].data = BackupDefaults[i]
                      /\ (f \in DOMAIN data /\ data[f] # Null) =>
                            /\ disk[BackupKeys[i]] = Stringify(data[f])
                            /\ cache[BackupKeys[i]].data = data[f]
        /\ ~HasData(done.doc) => disk = done.diskAt /\ cache = done.cacheAt

\* C19: restoreFromBackup writes the four covered keys only: every other
\* key keeps its backend value and its cache entry; a sub-field missing from
\* the data section is written as [] (as {} for the settings), a sub-field
\* holding a list or an object as that value; and a document without a data
\* section leaves every key as it was.
\* (Stated of the step at which restoreFromBackup returns.)
C19_RestoreFrame ==
    [][(/\ done'.op = "restore" /\ ~done'.threw
        /\ pc'["p1"] = "idle"
        /\ (pc["p1"] = "restore.set" \/ ops' # ops)) => RestoreEffect']_vars

\* A restore from a data section without notifications has emptied the
\* stored notifications and left the session alone.
C19_Witness ==
    /\ done.op = "restore"
    /\ pc["p1"] = "idle"
    /\ HasData(done.doc)
    /\ "notifications" \notin DOMAIN Parse(done.doc).data
    /\ done.diskAt[K_NOTIFICATIONS] \notin {Absent, Stringify(EmptyList)}
    /\ disk[K_NOTIFICATIONS] = Stringify(EmptyList)
    /\ disk[K_USER] # Absent
    /\ K_USER \in DOMAIN cache

\* A restore from a document without a data section.
C19_WitnessNoData ==
    /\ done.op = "restore"
    /\ pc["p1"] = "idle"
    /\ ~done.threw
    /\ ~HasData(done.doc)
    /\ cache # EmptyCache

\* C20: with no concurrent writer, updateAppSettings(patch) stores the
\* shallow merge of the stored settings (of the built-in defaults when none
\* are stored) with the patch: a field of the patch has the patch's value,
\* every other field the value it had.
C20_SettingsShallowMerge ==
    (done.op = "updateAppSettings" /\ pc["p1"] = "idle") =>
        LET base   == IF done.before # Absent THEN Parse(done.before).o
                                              ELSE DefaultSettings.o
            stored == Parse(disk[K_SETTINGS]).o
        IN  /\ DOMAIN stored = DOMAIN base \cup DOMAIN done.patch
            /\ \A f \in DOMAIN done.patch : stored[f] = done.patch[f]
            /\ \A f \in DOMAIN base \ DOMAIN done.patch : stored[f] = base[f]
            /\ View(K_SETTINGS, DefaultSettings) = Parse(disk[K_SETTINGS])

\* An update of settings that held a field the patch does not name and a
\* different value for the one it names.
C20_Witness ==
    /\ done.op = "updateAppSettings"
    /\ pc["p1"] = "idle"
    /\ done.before # Absent
    /\ \E f \in DOMAIN done.patch :
          /\ f \in DOMAIN Parse(done.before).o
          /\ Parse(done.before).o[f] # done.patch[f]
    /\ DOMAIN Parse(done.before).o \ DOMAIN done.patch # {}

\* An update with no settings stored: the defaults are the base.
C20_WitnessDefaults ==
    /\ done.op = "updateAppSettings"
    /\ pc["p1"] = "idle"
    /\ done.before = Absent
    /\ Parse(disk[K_SETTINGS]).o.language = "pt-BR"

(***************************************************************************)
(* Lifecycle of an appointment (checked under SpecDoctor).                 *)
(***************************************************************************)
StoredAppts == ParseOrEmpty(disk[K_APPOINTMENTS]).a
StoredNotifs == ParseOrEmpty(disk[K_NOTIFICATIONS]).a

\* The step is the write of a booking: one pending appointment more, at the
\* end, and nothing else changed.
BookingWrite(p) ==
    /\ pc[p] = "book.read"
    /\ pc'[p] = "book.write"
    /\ Len(StoredAppts') = Len(StoredAppts) + 1
    /\ SubSeq(StoredAppts', 1, Len(StoredAppts)) = StoredAppts
    /\ StoredAppts'[Len(StoredAppts')].status = "pending"

\* The step is the write of a confirm or cancel: the appointments with the
\* selected id have the new status (and the reason of a cancel that gave
\* one), every other field and every other appointment is as it was.
ActionWrite(p) ==
    /\ pc[p] = "act.read"
    /\ pc'[p] = "act.write"
    /\ Len(StoredAppts') = Len(StoredAppts)
    /\ \A i \in DOMAIN StoredAppts :
          LET o == StoredAppts[i]
              n == StoredAppts'[i]
              may == IF loc[p].action = "cancel" /\ loc[p].reason # Undefined
                        THEN {"status", "cancelReason"} ELSE {"status"}
          IN  IF o.id = loc[p].sel.id
                THEN /\ DOMAIN o \subseteq DOMAIN n
                     /\ DOMAIN n \subseteq DOMAIN o \cup may
                     /\ \A f \in DOMAIN o \ may : n[f] = o[f]
                ELSE n = o

\* C21: every appointment the booking flow writes is pending; a confirm or
\* cancel changes only the status (and the cancelReason, for a cancel with
\* a reason) of the appointment with the selected id; and no booking,
\* confirm or cancel removes an appointment from the stored collection.
C21_LifecycleWrites ==
    [][disk'[K_APPOINTMENTS] # disk[K_APPOINTMENTS] =>
          \E p \in Procs : BookingWrite(p) \/ ActionWrite(p)]_vars

\* The stored status of an appointment changes from pending to confirmed
\* or to cancelled, and in no other way.
StatusFinal ==
    [][\A i \in DOMAIN StoredAppts \cap DOMAIN StoredAppts' :
          LET o == StoredAppts[i]
              n == StoredAppts'[i]
          IN  (o.id = n.id /\ o.status # n.status) =>
                  /\ o.status = "pending"
                  /\ n.status \in {"confirmed", "cancelled"}]_vars

\* The stored confirm/cancel notifications of an appointment.
ActionNotifications(id) ==
    {i \in DOMAIN StoredNotifs :
        /\ StoredNotifs[i].type \in {"appointment_confirmed", "appointment_cancelled"}
        /\ StoredNotifs[i].appointmentId = id}

AtMostOneActionNotification ==
    \A i \in DOMAIN StoredAppts :
        Cardinality(ActionNotifications(StoredAppts[i].id)) <= 1

\* C25: a stored status only ever goes from pending to confirmed or from
\* pending to cancelled, also when a second action is started on an
\* appointment before the list has reloaded from a first one, and at most
\* one confirm/cancel notification is created for an appointment.
C25_ConfirmedCancelledFinal ==
    StatusFinal /\ []AtMostOneActionNotification

\* No booking or confirm/cancel handler is between its first read and its
\* return (a reload it started may still be pending).
HandlersFinished == \A p \in Procs : pc[p] \in {"idle", "load.read"}

HasNotification(type, userId, apptId) ==
    \E i \in DOMAIN StoredNotifs :
        /\ StoredNotifs[i].type = type
        /\ StoredNotifs[i].userId = userId
        /\ StoredNotifs[i].appointmentId = apptId

\* C26: whenever the handlers have finished, a stored appointment that is
\* confirmed (cancelled) has a stored appointment_confirmed
\* (appointment_cancelled) notification for its patient with its id, and
\* every stored booking has a 'new appointment' notification for its doctor.
C26_StatusAndNotificationPaired ==
    HandlersFinished =>
        \A i \in DOMAIN StoredAppts :
            LET a == StoredAppts[i] IN
            /\ a.status = "confirmed" =>
                  HasNotification("appointment_confirmed", a.patientId, a.id)
            /\ a.status = "cancelled" =>
                  HasNotification("appointment_cancelled", a.patientId, a.id)
            /\ HasNotification("general", a.doctorId, a.id)

(***************************************************************************)
(* The session across restarts (checked under SpecSession).                *)
(***************************************************************************)
\* The provider has finished loading and no auth handler is running.
SessionReady == pc["p1"] = "idle" /\ ~loading

\* C22: once a signIn or register has completed, the provider holds that
\* user, without a password, also after a later start has run
\* loadStoredUser; once signOut has completed, the user and token keys are
\* absent, the user is null, and a later start restores none.
C22_SessionSurvivesRestart ==
    SessionReady =>
        /\ (done.op \in {"signIn", "register"} /\ done.ok) =>
              /\ user = Obj(done.user)
              /\ "password" \notin DOMAIN user.o
              /\ disk[K_USER] = Stringify(user)
        /\ done.op = "signOut" =>
              /\ user = Null
              /\ disk[K_USER] = Absent
              /\ disk[K_TOKEN] = Absent

\* A register completed, the process restarted, and loadStoredUser has
\* restored the registered patient (the in-memory list is still empty).
C22_Witness ==
    /\ SessionReady
    /\ done.op = "register"
    /\ done.ok
    /\ registeredUsers = <<>>
    /\ pc["p2"] = "users.read"
    /\ user = Obj(done.user)

\* A start after a completed signOut has restored no user.
C22_WitnessSignedOut ==
    /\ SessionReady
    /\ done.op = "signOut"
    /\ pc["p2"] = "users.read"
    /\ user = Null

(***************************************************************************)
(* Erase all data (checked under SpecErase).                               *)
(***************************************************************************)
StoredUsers == ParseOrEmpty(disk[K_REGISTERED]).a

\* clearAll has completed at some earlier point of the run.
Erased == lastOp.op = "clearAll"

\* signIn succeeds for a patient at this step.
PatientSignsIn ==
    /\ pc["p1"] = "idle"
    /\ pc'["p1"] = "auth.user"
    /\ loc'["p1"].rec.op = "signIn"
    /\ loc'["p1"].rec.user.role = "patient"

\* authService.register persists the users list at this step.
RegisterPersists ==
    /\ pc["p1"] = "idle"
    /\ pc'["p1"] = "register.set"

\* C27: after 'erase all data' a formerly registered patient can no longer
\* sign in (whoever signs in as a patient is in the registered-users list
\* persisted since the erase), and a register persists, after the users
\* persisted since the erase, the new user and no other.
C27_ErasedForGood ==
    [][Erased =>
         /\ PatientSignsIn =>
               \E i \in DOMAIN StoredUsers :
                   StoredUsers[i].email = loc'["p1"].rec.email
         /\ RegisterPersists =>
               /\ Len(StoredUsers') = Len(StoredUsers) + 1
               /\ SubSeq(StoredUsers', 1, Len(StoredUsers)) = StoredUsers]_vars

(***************************************************************************)
(* Cache coherence (checked under SpecApp).                                *)
(***************************************************************************)
Quiescent == \A p \in Procs : pc[p] = "idle"

\* C23: whenever no call is suspended, every key with an unexpired cache
\* entry has in the cache the deserialized value the backend holds for it
\* (compared as JSON, so that a field holding undefined counts as absent),
\* whatever storage-service calls and direct backend writes came before.
C23_CacheCoherent ==
    Quiescent =>
        \A k \in DOMAIN cache :
            CacheValid(cache, k, now) =>
                /\ disk[k] # Absent
                /\ Parsable(disk[k])
                /\ ToJSON(cache[k].data) = Parse(disk[k])

(***************************************************************************)
(* A failed add (checked under SpecAddFail).                               *)
(***************************************************************************)
\* C24: when the backend write inside addAppointment has failed and the call
\* has thrown, a getAppointments made next returns the collection as it was
\* before the call, without the element that failed to be added.
C24_FailedAddLeavesList ==
    (pc["p1"] = "idle" /\ done.op = "add.failed") =>
        View(done.req.key, EmptyList) = done.before

(***************************************************************************)
(* Registration against the start-up load (checked under SpecAuth).        *)
(***************************************************************************)
UserEmails(list) == {list[i].email : i \in DOMAIN list}

\* C28: every user the backend list held before a register call is still in
\* it after the call, and once no operation is pending the in-memory list
\* and the backend list hold the same users.
C28_RegisterKeepsPatients ==
    /\ [][RegisterPersists =>
             UserEmails(StoredUsers) \subseteq UserEmails(StoredUsers')]_vars
    /\ [](Quiescent => UserEmails(registeredUsers) = UserEmails(StoredUsers))

(***************************************************************************)
(* A failed restore (checked under SpecRestoreFail).                       *)
(***************************************************************************)
\* restoreFromBackup throws at this step.
RestoreThrows ==
    /\ pc'["p1"] = "idle"
    /\ pc["p1"] = "restore.rejected" \/ ops' # ops
    /\ done'.op = "restore"
    /\ done'.threw

\* C29: when restoreFromBackup throws (unparsable document, or a backend
\* write failing on any of the four keys), each of the four covered keys has
\* the backend value and the cache entry it had when the call was made.
C29_RestoreAllOrNothing ==
    [][RestoreThrows =>
         \A k \in CoveredKeys :
             /\ disk'[k] = done'.diskAt[k]
             /\ EntryOf(cache', k) = EntryOf(done'.cacheAt, k)]_vars

(***************************************************************************)
(* The screens after a booking (checked under SpecApp).                    *)
(***************************************************************************)
Listed(a, list) == \E i \in DOMAIN list : list[i] = a

\* C30: once the booking flow has stored an appointment, the Home screen,
\* the PatientDashboard of its patient and the DoctorDashboard of its doctor
\* each list it when they load on their next focus.
C30_BookingShownEverywhere ==
    pc["p1"] = "book.write" =>
        LET a == loc["p1"].appt IN
        /\ Listed(a, HomeLoad(<<>>))
        /\ Listed(a, PatientLoad(a.patientId, <<>>))
        /\ Listed(a, DoctorLoad(a.doctorId, <<>>))

====
